---- MODULE Spec2Model ----
(***************************************************************************)
(* A model of upfly's per-file streaming pipeline (src/src/upfly.js):      *)
(* customStorageEngine._handleFile, createHighwayController, createBackup, *)
(* the two backup fallbacks, cleanupTempFile, and uploadToCloud of the     *)
(* cloud module.  One action per stream event handler.                     *)
(*                                                                         *)
(* Sizes are counted in blocks of 1 MiB: a chunk is a non-empty sequence   *)
(* of blocks, a buffer is a sequence of blocks.                            *)
(***************************************************************************)
EXTENDS Integers, Sequences, FiniteSets, TLC

\* ------------------------------------------------------------------ bounds

\* The longest source stream, in chunks.
MaxChunks == 2

\* 7 * 1024 * 1024 bytes, in blocks of 1 MiB.
LARGE_FILE_THRESHOLD_BYTES == 7

\* ------------------------------------------------------------ plain values

FileIds == {1, 2}

\* The chunks a source stream is made of: 3, 4 and 5 MiB, distinct blocks.
ChunkSet == { <<1, 2, 3>>, <<4, 5, 6, 7>>, <<8, 9, 10, 11, 12>> }

Inputs == UNION { [1..n -> ChunkSet] : n \in 0..MaxChunks }

\* An optional value (JavaScript null / undefined against a value).
None == <<>>
Some(x) == <<x>>

RECURSIVE Flatten(_)
Flatten(chunks) ==
    IF chunks = <<>> THEN <<>> ELSE Head(chunks) \o Flatten(Tail(chunks))

RECURSIVE SumLen(_)
SumLen(chunks) ==
    IF chunks = <<>> THEN 0 ELSE Len(Head(chunks)) + SumLen(Tail(chunks))

\* Buffer.concat(list, totalLength): the concatenation cut to totalLength, or
\* zero-filled up to it.
BufferConcat(list, totalLength) ==
    LET b == Flatten(list) IN
    IF Len(b) >= totalLength
    THEN SubSeq(b, 1, totalLength)
    ELSE b \o [i \in 1..(totalLength - Len(b)) |-> 0]

\* sharp().toFormat(format, {quality}) on one chunk: the external converter.
\* Its output differs from its input and is shorter.
SharpConvert(chunk) == [i \in 1..(Len(chunk) - 1) |-> chunk[i] + 10]
\* Every file spilling its backup to one and the same temp path.
BackupPathOf_Shared(f) == <<"tmp", 1>>

\* `backup-${Date.now()}-${random}` under os.tmpdir()/upfly-backupDir.
BackupPathOf(f) == <<"tmp", f>>

\* path.join(normalizedOutputDir, filename), filename = generateFileName(file).
\* The random suffixes of generateFileName and of the backup name are taken
\* to differ between the files of a request: names are a function of the file.
OutputPathOf(f) == <<"out", f>>

\* path.join(normalizedOutputDir, generateConvertedFileName(filename, format)).
RevisedOutputPathOf(f) == <<"converted", f>>

\* The backup temp file an earlier request left behind, still registered.
LeftoverPath == <<"tmp", 0>>

Paths ==
    {LeftoverPath} \cup
    UNION { {BackupPathOf(f), OutputPathOf(f), RevisedOutputPathOf(f)} : f \in FileIds }

\* ------------------------------------------------------------------- state

VARIABLES
    conversion,         \* one convertBufferToMemory / convertBufferToDisk call
    cloud,              \* one uploadToCloud call
    dir,                \* ensureServerRootDir: one call and what it returned
    up,                 \* upflyUpload: the call, the middleware it returned, one request
    conv,               \* upflyConvert: one request through the middleware
    proc,               \* the Node process: running / exited, what its drain met
    files,              \* the files of the request
    faulty,             \* the files whose converter, sinks and file system may fail
    safeFile,           \* the safeFile option of upflyUpload
    file,               \* per file: mimetype, keepOriginal, output, the source chunks
    stream,             \* file.stream: chunks read so far, open / ended / errored
    teeBackup,          \* chunks written to teeBackup and not yet emitted as 'data'
    ctl,                \* the closure variables of createHighwayController
    result,             \* controller.result
    backupState,        \* backupState of createHighwayController
    fs,                 \* the file system: path -> content
    tempFilesPathRegistry,
    converter,          \* the sharp stream
    diskstream,         \* fs.createWriteStream(outputPath)
    cloudUploadStream,  \* the PassThrough handed to uploadToCloud
    uploads,            \* the uploadToCloud calls in flight
    fallbackOp,         \* handleMemoryBackupFallback / handleDiskBackupFallback in flight
    cbs,                \* the invocations of _handleFile's callback
    hist                \* history: which branches wrote controller.result, attempts made

vars == <<conversion, cloud, dir, up, conv, proc, files, faulty, safeFile, file, stream, teeBackup, ctl, result, backupState,
          fs, tempFilesPathRegistry, converter, diskstream, cloudUploadStream,
          uploads, fallbackOp, cbs, hist>>

\* ------------------------------------------------- what the code derives

\* The formats Sharp takes as input.
SHARP_SUPPORTED_FORMATS ==
    {"image/jpeg", "image/jpg", "image/png", "image/webp", "image/gif",
     "image/avif", "image/tiff", "image/svg+xml", "image/heif", "image/heic"}

\* The mimetypes of the model for which mimetype.startsWith('image') holds.
ImageMimetypes == {"image/png", "image/bmp"}

isImage(f) == file[f].mimetype \in ImageMimetypes

isCloudUpload(f) == file[f].output = "cloud"

\* Conversion whatever keepOriginal says.
shouldConvert_IgnoreKeepOriginal(f) == isImage(f)

shouldConvert(f) == isImage(f) /\ ~file[f].keepOriginal

\* A format check that lets every image through.
Unsupported_Never(f) == FALSE

\* _handleFile's format check: an image that is to be converted and that
\* Sharp cannot read.
Unsupported(f) ==
    /\ isImage(f)
    /\ ~file[f].keepOriginal
    /\ file[f].mimetype \notin SHARP_SUPPORTED_FORMATS

\* Backup protection switched on whatever safeFile says.
needsBackup_Always == TRUE


needsBackup == safeFile

\* A converted record left under the type of a PNG upload.
ConvertedMime_Declared == "image/png"

\* `image/${format.toLowerCase()}`
ConvertedMime == "image/webp"

\* -------------------------------------------------------- result records

\* controller.result before any branch assigned it.
NoResult ==
    [defined |-> FALSE, buffer |-> None, path |-> None, cloudUrl |-> None,
     mimetype |-> None, size |-> None, originalSize |-> None,
     convertedSize |-> None, meta |-> None,
     error |-> None, skipped |-> None, processed |-> None]

\* {...file}: the fields of the Multer file object.
FileFields(f) == [NoResult EXCEPT !.defined = TRUE, !.mimetype = Some(file[f].mimetype)]

Metadata(isBackupFallback, isSkipped, isProcessed, errors) ==
    Some([isBackupFallback |-> isBackupFallback, isSkipped |-> isSkipped,
          isProcessed |-> isProcessed, errors |-> errors])

\* A failure record: {...file, _metadata: {isSkipped: true, ..., errors}}.
FailedRecord(f, errors) ==
    [FileFields(f) EXCEPT !.meta = Metadata(FALSE, TRUE, FALSE, errors)]

\* The record of the format check:
\* {...file, error: 'Unsupported image format ...', _skipped: true, _processed: false}.
UnsupportedRecord(f) ==
    [FileFields(f) EXCEPT !.error = Some("E_UNSUPPORTED_FORMAT"),
                          !.skipped = Some(TRUE), !.processed = Some(FALSE)]

\* --------------------------------------------------------------- helpers

\* cleanupTempFile(path) on the file system.
CleanupFs(fsys, path) ==
    IF path # None /\ fsys[path[1]] # None
    THEN [fsys EXCEPT ![path[1]] = None]
    ELSE fsys
\* A cleanup that unlinks the file and leaves its path registered.
CleanupRegistry_Keep(fsys, reg, path) == reg

\* cleanupTempFile(path) on the registry: the path is deleted from the
\* registry only when the file existed and was unlinked.
CleanupRegistry(fsys, reg, path) ==
    IF path # None /\ fsys[path[1]] # None
    THEN reg \ {path[1]}
    ELSE reg

\* backupState.backupBuffer.length > 0 || backupState.backupPath
BackupHasContent(f) ==
    backupState[f].backupBuffer # <<>> \/ backupState[f].backupPath # None

\* The backupData object literal of the cloud branches.
BackupData(f) ==
    [buffer |-> IF backupState[f].backupBuffer # <<>>
                THEN Some(BufferConcat(backupState[f].backupBuffer,
                                       backupState[f].backupTotalSize))
                ELSE None,
     path |-> backupState[f].backupPath]

InitBackupState ==
    [backupBuffer |-> <<>>, backupPath |-> None, backupTotalSize |-> 0,
     useMemoryBackup |-> TRUE, backupWriteStream |-> "null",
     pending |-> <<>>, opened |-> FALSE]

\* A backupData object that already holds a captured buffer.
BackupDataAtConstruction_Captured == Some([buffer |-> Some(<<1>>), path |-> None])

\* backupData as the cloud branches compute it, while the controller is
\* constructed: backupState is still the initial one.
BackupDataAtConstruction ==
    IF needsBackup
    THEN Some([buffer |-> IF InitBackupState.backupBuffer # <<>>
                          THEN Some(BufferConcat(InitBackupState.backupBuffer,
                                                 InitBackupState.backupTotalSize))
                          ELSE None,
               path |-> InitBackupState.backupPath])
    ELSE None
\* The processing-complete promise rejecting where the code resolves it.
Resolve_Rejecting(c) == [c EXCEPT !.promise = IF @ = "null" THEN "null" ELSE "rejected"]

\* if(processingCompletePromise) resolveProcessingPromise()
Resolve(c) == [c EXCEPT !.promise = IF @ = "null" THEN "null" ELSE "resolved"]

\* An uploadToCloud call that was not made.
IdleCall == [phase |-> "idle", source |-> "null", backup |-> None, body |-> <<>>,
             err |-> "none", tries |-> 0]

\* uploadToCloud(source, metadata, cloudProvider, cloudConfig, backup): the
\* first adapter.upload(stream, metadata) is under way.
StartCall(source, backup, err) ==
    [phase |-> "primary", source |-> source, backup |-> backup, body |-> <<>>,
     err |-> err, tries |-> 1]

\* A test that takes any backup object for a usable one.
BackupUsable_AnyObject(backup) == backup # None

\* backup && (backup.buffer || backup.path)
BackupUsable(backup) ==
    backup # None /\ (backup[1].buffer # None \/ backup[1].path # None)

IdleFallback == [phase |-> "idle", kind |-> "none", path |-> None, data |-> <<>>,
                 err |-> "none"]

\* stream.write(chunk) on a stream that buffers: a destroyed or ended stream
\* drops the chunk.
ConverterWrite(c, chunk) ==
    IF c.state = "open" /\ ~c.inEnded THEN [c EXCEPT !.inq = Append(@, chunk)] ELSE c

\* A disk write stream that writes every chunk twice.
DiskWrite_Twice(d, chunk) ==
    IF d.state = "open" THEN [d EXCEPT !.pending = Append(Append(@, chunk), chunk)] ELSE d

DiskWrite(d, chunk) ==
    IF d.state = "open" THEN [d EXCEPT !.pending = Append(@, chunk)] ELSE d

CloudWrite(s, chunk) ==
    IF s.state = "open" THEN [s EXCEPT !.buf = Append(@, chunk)] ELSE s

\* stream.end()
ConverterEndInput(c) == IF c.state = "open" THEN [c EXCEPT !.inEnded = TRUE] ELSE c

DiskEnd(d) == IF d.state = "open" THEN [d EXCEPT !.state = "ending"] ELSE d

CloudEnd(s) == IF s.state = "open" THEN [s EXCEPT !.state = "ended"] ELSE s

\* ------------------------------------------------------------------- Init

FileConfigs ==
    [mimetype : {"image/png", "image/bmp", "application/pdf"}, keepOriginal : BOOLEAN,
     output : {"memory", "disk", "cloud"}, input : Inputs]

\* A file that is not part of the request.
NoFile == [mimetype |-> "application/pdf", keepOriginal |-> FALSE,
           output |-> "memory", input |-> <<>>]

\* The closure state createHighwayController builds for each file, before
\* anything is read; no controller is built for a file the format check
\* rejects.
Fresh ==
    [stream |-> [f \in FileIds |-> [pos |-> 0, state |-> "open"]],
     teeBackup |-> [f \in FileIds |-> [q |-> <<>>, ended |-> FALSE]],
     ctl |-> [f \in FileIds |->
                [originalFileSize |-> 0, memoryBuffer |-> <<>>, totalSize |-> 0,
                 convertedFileSize |-> 0, cloudConvertedSize |-> 0,
                 flushed |-> FALSE, destroyed |-> FALSE, finished |-> FALSE,
                 promise |-> IF Unsupported(f)
                                \/ (~isCloudUpload(f) /\ file[f].output = "memory"
                                    /\ ~shouldConvert(f))
                             THEN "null" ELSE "pending"]],
     result |-> [f \in FileIds |-> NoResult],
     backupState |-> [f \in FileIds |-> InitBackupState],
     converter |-> [f \in FileIds |->
                      [state |-> IF shouldConvert(f) /\ ~Unsupported(f)
                                 THEN "open" ELSE "null",
                       inq |-> <<>>, inEnded |-> FALSE]],
     diskstream |-> [f \in FileIds |->
                       [state |-> IF file[f].output = "disk" /\ ~Unsupported(f)
                                  THEN "open" ELSE "null",
                        pending |-> <<>>]],
     cloudUploadStream |-> [f \in FileIds |->
                              [state |-> IF isCloudUpload(f) /\ ~Unsupported(f)
                                         THEN "open" ELSE "null",
                               buf |-> <<>>, uploadStarted |-> FALSE]],
     uploads |-> [f \in FileIds |-> [main |-> IdleCall, fb |-> IdleCall]],
     fallbackOp |-> [f \in FileIds |-> IdleFallback],
     cbs |-> [f \in FileIds |-> <<>>],
     hist |-> [f \in FileIds |->
                 [writes |-> <<>>, fallbacks |-> 0, attempts |-> 0, retries |-> 0,
                  withBackup |-> {}, mainSeen |-> <<>>, backupSeen |-> <<>>]]]

\* The state right after _handleFile constructed the controller of every
\* file of the request: createHighwayController has run, nothing was read.
\* An earlier request left one registered backup temp file behind.
InitOf(fileSet, faultySet) ==
    /\ proc = [state |-> "running", registered |-> {}, existed |-> {},
               kept |-> {}, open |-> {}]
    /\ files = fileSet
    /\ faulty = faultySet
    /\ safeFile \in BOOLEAN
    /\ file \in [FileIds -> FileConfigs]
    /\ \A f \in FileIds \ fileSet : file[f] = NoFile
    /\ stream = Fresh.stream
    /\ teeBackup = Fresh.teeBackup
    /\ ctl = Fresh.ctl
    /\ result = Fresh.result
    /\ backupState = Fresh.backupState
    /\ fs = [p \in Paths |-> IF p = LeftoverPath THEN Some(<<>>) ELSE None]
    /\ tempFilesPathRegistry = {LeftoverPath}
    /\ converter = Fresh.converter
    /\ diskstream = Fresh.diskstream
    /\ cloudUploadStream = Fresh.cloudUploadStream
    /\ uploads = Fresh.uploads
    /\ fallbackOp = Fresh.fallbackOp
    /\ cbs = Fresh.cbs
    /\ hist = Fresh.hist

\* One file in the request; every collaborator of it may fail.
\* The pipeline of the files is looked at without the middleware around it.
NoConversion == [state |-> "none"]

NoCloud == [state |-> "none"]

NoDir == [state |-> "none"]

NoUpload == [state |-> "none"]

NoConvert == [state |-> "none"]

Init == InitOf({1}, {1}) /\ conversion = NoConversion /\ cloud = NoCloud /\ dir = NoDir /\ up = NoUpload /\ conv = NoConvert

\* ------------------------------------------- source, controller, backup
\* A tee that loses the chunks of the backup view.
TeeWrite_Lossy(t, chunk) == t

\* file.stream.pipe(teeBackup): the source's 'data' listener writes the chunk
\* to teeBackup, the same chunk it writes to teeMain.
TeeWrite(t, chunk) == [t EXCEPT !.q = Append(@, chunk)]

\* controller.transform(chunk): the next chunk of file.stream reaches the
\* controller; with safeFile the same chunk is written to teeBackup.
transform(f) ==
    /\ f \in files
    /\ stream[f].state = "open"
    /\ stream[f].pos < Len(file[f].input)
    /\ ~ctl[f].destroyed
    /\ LET chunk == file[f].input[stream[f].pos + 1]
           memoryPass == ~isCloudUpload(f) /\ file[f].output = "memory" /\ ~shouldConvert(f)
       IN
       /\ stream' = [stream EXCEPT ![f].pos = @ + 1]
       /\ teeBackup' = IF needsBackup
                       THEN [teeBackup EXCEPT ![f] = TeeWrite(@, chunk)]
                       ELSE teeBackup
       /\ hist' = [hist EXCEPT ![f].mainSeen = Append(@, chunk)]
       /\ ctl' = [ctl EXCEPT
                    ![f].originalFileSize = @ + Len(chunk),
                    ![f].memoryBuffer = IF memoryPass THEN Append(@, chunk) ELSE @,
                    ![f].totalSize = IF memoryPass THEN @ + Len(chunk) ELSE @]
       /\ converter' = IF shouldConvert(f)
                       THEN [converter EXCEPT ![f] = ConverterWrite(@, chunk)]
                       ELSE converter
       /\ cloudUploadStream' = IF isCloudUpload(f) /\ ~shouldConvert(f)
                               THEN [cloudUploadStream EXCEPT ![f] = CloudWrite(@, chunk)]
                               ELSE cloudUploadStream
       /\ diskstream' = IF ~isCloudUpload(f) /\ file[f].output = "disk" /\ ~shouldConvert(f)
                        THEN [diskstream EXCEPT ![f] = DiskWrite(@, chunk)]
                        ELSE diskstream
    /\ UNCHANGED <<conversion, cloud, dir, up, conv, proc, files, faulty, safeFile, file, result, backupState, fs,
                   tempFilesPathRegistry, uploads, fallbackOp, cbs>>

\* controller.flush(): file.stream ended and every chunk was transformed.
flush(f) ==
    /\ f \in files
    /\ stream[f].state = "open"
    /\ stream[f].pos = Len(file[f].input)
    /\ ~ctl[f].flushed
    /\ ~ctl[f].destroyed
    /\ LET memoryPass == ~isCloudUpload(f) /\ file[f].output = "memory" /\ ~shouldConvert(f)
       IN
       /\ stream' = [stream EXCEPT ![f].state = "ended"]
       /\ ctl' = [ctl EXCEPT ![f].flushed = TRUE]
       /\ converter' = IF shouldConvert(f)
                       THEN [converter EXCEPT ![f] = ConverterEndInput(@)]
                       ELSE converter
       /\ cloudUploadStream' = IF isCloudUpload(f) /\ ~shouldConvert(f)
                               THEN [cloudUploadStream EXCEPT ![f] = CloudEnd(@)]
                               ELSE cloudUploadStream
       /\ diskstream' = IF ~isCloudUpload(f) /\ file[f].output = "disk" /\ ~shouldConvert(f)
                        THEN [diskstream EXCEPT ![f] = DiskEnd(@)]
                        ELSE diskstream
       /\ result' = IF memoryPass
                    THEN [result EXCEPT ![f] =
                            [FileFields(f) EXCEPT
                               !.buffer = Some(BufferConcat(ctl[f].memoryBuffer,
                                                            ctl[f].totalSize)),
                               !.size = Some(ctl[f].totalSize)]]
                    ELSE result
       /\ hist' = IF memoryPass
                  THEN [hist EXCEPT ![f].writes = Append(@, "flush")]
                  ELSE hist
    /\ UNCHANGED <<conversion, cloud, dir, up, conv, proc, files, faulty, safeFile, file, teeBackup, backupState, fs,
                   tempFilesPathRegistry, uploads, fallbackOp, cbs>>

\* The continuation of _handleFile after `await pipeline(mainStream,
\* highwayController)`.  flush called back: cb(null, highwayController.result).
\* Had the awaited promise rejected, flush would call back with the error,
\* the pipeline would reject and the catch of _handleFile would clean the
\* backup file and call cb(err).
HandleFileDone(f) ==
    /\ f \in files
    /\ ctl[f].flushed
    /\ ctl[f].promise # "pending"
    /\ ~ctl[f].finished
    /\ ~ctl[f].destroyed
    /\ ctl' = [ctl EXCEPT ![f].finished = TRUE]
    /\ IF ctl[f].promise = "rejected"
       THEN /\ cbs' = [cbs EXCEPT ![f] =
                   Append(@, [err |-> Some("E_PROCESSING"), record |-> NoResult])]
            /\ fs' = CleanupFs(fs, backupState[f].backupPath)
            /\ tempFilesPathRegistry' =
                   CleanupRegistry(fs, tempFilesPathRegistry, backupState[f].backupPath)
       ELSE /\ cbs' = [cbs EXCEPT ![f] = Append(@, [err |-> None, record |-> result[f]])]
            /\ UNCHANGED <<fs, tempFilesPathRegistry>>
    /\ UNCHANGED <<conversion, cloud, dir, up, conv, proc, files, faulty, safeFile, file, stream, teeBackup, result,
                   backupState, converter, diskstream, cloudUploadStream, uploads,
                   fallbackOp, hist>>

\* file.stream emits 'error'.  Without the tee, pipeline(mainStream,
\* highwayController) rejects, the controller is destroyed and the catch of
\* _handleFile runs: the message is none of the unsupported-format ones, so
\* cb(err).  With the tee, pipe() forwards no error: teeMain and teeBackup
\* stay open.
SourceError(f) ==
    /\ f \in files
    /\ f \in faulty
    /\ stream[f].state = "open"
    /\ ~ctl[f].destroyed
    /\ stream' = [stream EXCEPT ![f].state = "errored"]
    /\ IF needsBackup
       THEN UNCHANGED <<ctl, cbs, fs, tempFilesPathRegistry>>
       ELSE /\ ctl' = [ctl EXCEPT ![f].destroyed = TRUE]
            /\ fs' = CleanupFs(fs, backupState[f].backupPath)
            /\ tempFilesPathRegistry' =
                   CleanupRegistry(fs, tempFilesPathRegistry, backupState[f].backupPath)
            /\ cbs' = [cbs EXCEPT ![f] =
                         Append(@, [err |-> Some("E_SOURCE"), record |-> NoResult])]
    /\ UNCHANGED <<conversion, cloud, dir, up, conv, proc, files, faulty, safeFile, file, teeBackup, result, backupState,
                   converter, diskstream, cloudUploadStream, uploads, fallbackOp, hist>>

\* A capture that spills as soon as the total reaches the threshold.
CrossesThreshold_AtEqual(total) == total >= LARGE_FILE_THRESHOLD_BYTES

\* state.backupTotalSize > LARGE_FILE_THRESHOLD_BYTES
CrossesThreshold(total) == total > LARGE_FILE_THRESHOLD_BYTES

\* A spill that writes the triggering chunk ahead of the buffered ones.
SpillWrites_ChunkFirst(buffered, chunk) == <<chunk>> \o buffered

\* The writes of the spill, in order: `for (const buffered of
\* state.backupBuffer) write(buffered)`, then `write(chunk)`.
SpillWrites(buffered, chunk) == buffered \o <<chunk>>

\* createBackup: backupStream.on('data').
BackupOnData(f) ==
    /\ f \in files
    /\ teeBackup[f].q # <<>>
    /\ LET chunk == Head(teeBackup[f].q)
           st == backupState[f]
           total == st.backupTotalSize + Len(chunk)
       IN
       /\ teeBackup' = [teeBackup EXCEPT ![f].q = Tail(@)]
       /\ IF st.useMemoryBackup /\ CrossesThreshold(total)
          THEN /\ backupState' = [backupState EXCEPT ![f] =
                     [st EXCEPT !.backupTotalSize = total,
                                !.useMemoryBackup = FALSE,
                                !.backupPath = Some(BackupPathOf(f)),
                                !.backupWriteStream = "open",
                                !.pending = SpillWrites(st.backupBuffer, chunk),
                                !.backupBuffer = <<>>]]
               /\ tempFilesPathRegistry' = tempFilesPathRegistry \cup {BackupPathOf(f)}
          ELSE /\ backupState' = [backupState EXCEPT ![f] =
                     [st EXCEPT !.backupTotalSize = total,
                                !.backupBuffer =
                                    IF st.useMemoryBackup THEN Append(@, chunk) ELSE @,
                                !.pending =
                                    IF ~st.useMemoryBackup /\ st.backupWriteStream = "open"
                                    THEN Append(@, chunk) ELSE @]]
               /\ UNCHANGED tempFilesPathRegistry
       /\ hist' = [hist EXCEPT ![f].backupSeen = Append(@, chunk)]
    /\ UNCHANGED <<conversion, cloud, dir, up, conv, proc, files, faulty, safeFile, file, stream, ctl, result, fs, converter,
                   diskstream, cloudUploadStream, uploads, fallbackOp, cbs>>

\* createBackup: backupStream.on('end').
BackupOnEnd(f) ==
    /\ f \in files
    /\ needsBackup
    /\ stream[f].state = "ended"
    /\ teeBackup[f].q = <<>>
    /\ ~teeBackup[f].ended
    /\ teeBackup' = [teeBackup EXCEPT ![f].ended = TRUE]
    /\ backupState' = [backupState EXCEPT ![f].backupWriteStream =
                          IF @ = "open" THEN "ending" ELSE @]
    /\ UNCHANGED <<conversion, cloud, dir, up, conv, proc, files, faulty, safeFile, file, stream, ctl, result, fs,
                   tempFilesPathRegistry, converter, diskstream, cloudUploadStream,
                   uploads, fallbackOp, cbs, hist>>

\* backupState.backupWriteStream writes what it buffered to the temp file.
\* The first write opens (creates) the file; after an unlink the writes go
\* to the unlinked file and the path stays absent.
BackupWriteDrain(f) ==
    /\ f \in files
    /\ backupState[f].backupWriteStream \in {"open", "ending"}
    /\ backupState[f].pending # <<>>
    /\ LET p == BackupPathOf(f)
           data == Flatten(backupState[f].pending)
       IN
       fs' = IF ~backupState[f].opened THEN [fs EXCEPT ![p] = Some(data)]
             ELSE IF fs[p] = None THEN fs
             ELSE [fs EXCEPT ![p] = Some(@[1] \o data)]
    /\ backupState' = [backupState EXCEPT ![f].pending = <<>>, ![f].opened = TRUE]
    /\ UNCHANGED <<conversion, cloud, dir, up, conv, proc, files, faulty, safeFile, file, stream, teeBackup, ctl, result,
                   tempFilesPathRegistry, converter, diskstream, cloudUploadStream,
                   uploads, fallbackOp, cbs, hist>>

\* ------------------------------------------------ the backup fallbacks

\* A substitution record that carries the backup buffer next to the path.
SubstitutedRecord_BothLocations(f, buffer, path, errors) ==
    [FileFields(f) EXCEPT
       !.buffer = Some(Flatten(backupState[f].backupBuffer)),
       !.path = path,
       !.size = Some(backupState[f].backupTotalSize),
       !.originalSize = Some(ctl[f].originalFileSize),
       !.meta = Metadata(TRUE, FALSE, TRUE, errors)]

\* The record of a backup substitution on disk or in memory.
SubstitutedRecord(f, buffer, path, errors) ==
    [FileFields(f) EXCEPT
       !.buffer = buffer,
       !.path = path,
       !.size = Some(backupState[f].backupTotalSize),
       !.originalSize = Some(ctl[f].originalFileSize),
       !.meta = Metadata(TRUE, FALSE, TRUE, errors)]

\* History: a primary stage failed while the backup held content.
Mark(f, cause) == IF needsBackup /\ BackupHasContent(f) THEN {cause} ELSE {}

CauseOf(msg) == IF msg = "E_DISK" THEN "disk" ELSE "converter"

\* The catch of pendingPipeline in the disk branch, up to the first await:
\* handleDiskBackupFallback is called when a backup holds content.
DiskPipelineCatch(f, msg) ==
    IF needsBackup /\ BackupHasContent(f)
    THEN /\ fallbackOp' = [fallbackOp EXCEPT ![f] =
                IF backupState[f].backupPath # None
                THEN [phase |-> "io", kind |-> "diskCopy",
                      path |-> backupState[f].backupPath, data |-> <<>>, err |-> msg]
                ELSE [phase |-> "io", kind |-> "diskWrite", path |-> None,
                      data |-> BufferConcat(backupState[f].backupBuffer,
                                            backupState[f].backupTotalSize),
                      err |-> msg]]
         /\ hist' = [hist EXCEPT ![f].fallbacks = @ + 1,
                                 ![f].withBackup = @ \cup Mark(f, CauseOf(msg))]
         /\ UNCHANGED <<result, ctl>>
    ELSE /\ result' = [result EXCEPT ![f] =
                FailedRecord(f, {<<"pipeline", msg>>, <<"message", msg>>})]
         /\ ctl' = [ctl EXCEPT ![f] = Resolve(@)]
         /\ hist' = [hist EXCEPT ![f].writes = Append(@, "diskNoBackup")]
         /\ UNCHANGED fallbackOp

\* converter.on('error') of the memory branch.  Without a backup path
\* handleMemoryBackupFallback has nothing to wait for and the handler runs
\* to its end; with one, fsPromise.readFile is started.
MemoryOnError(f) ==
    IF needsBackup /\ BackupHasContent(f)
    THEN IF backupState[f].backupPath # None
         THEN /\ fallbackOp' = [fallbackOp EXCEPT ![f] =
                     [phase |-> "io", kind |-> "memRead",
                      path |-> backupState[f].backupPath, data |-> <<>>,
                      err |-> "E_CONVERT"]]
              /\ hist' = [hist EXCEPT ![f].fallbacks = @ + 1,
                                      ![f].withBackup = @ \cup Mark(f, "converter")]
              /\ UNCHANGED <<result, ctl>>
         ELSE /\ result' = [result EXCEPT ![f] =
                     SubstitutedRecord(f,
                         Some(BufferConcat(backupState[f].backupBuffer,
                                           backupState[f].backupTotalSize)),
                         None, {<<"conversion", "E_CONVERT">>})]
              /\ ctl' = [ctl EXCEPT ![f] = Resolve(@)]
              /\ hist' = [hist EXCEPT ![f].writes = Append(@, "memoryFallback"),
                                      ![f].fallbacks = @ + 1,
                                      ![f].withBackup = @ \cup Mark(f, "converter")]
              /\ UNCHANGED fallbackOp
    ELSE /\ result' = [result EXCEPT ![f] =
                FailedRecord(f, {<<"conversion", "E_CONVERT">>,
                                 <<"message", "E_CONVERT">>})]
         /\ ctl' = [ctl EXCEPT ![f] = Resolve(@)]
         /\ hist' = [hist EXCEPT ![f].writes = Append(@, "memoryNoBackup")]
         /\ UNCHANGED fallbackOp

\* The error record after a failed fallback: the disk catch names both
\* errors; in the memory handler `catch(err)` shadows the converter's err.
FallbackFailedErrors(kind, primaryErr, fallbackErr) ==
    IF kind = "memRead"
    THEN {<<"conversion", fallbackErr>>, <<"message", fallbackErr>>}
    ELSE {<<"pipeline", primaryErr>>, <<"fallback", fallbackErr>>,
          <<"message", primaryErr>>}

\* handleDiskBackupFallback / handleMemoryBackupFallback fulfils, and the
\* handler that awaited it writes the substituted record.
FallbackSucceeds(f) ==
    /\ f \in files
    /\ fallbackOp[f].phase = "io"
    /\ fallbackOp[f].kind \in {"diskCopy", "memRead"} => fs[fallbackOp[f].path[1]] # None
    /\ LET op == fallbackOp[f]
           out == OutputPathOf(f)
           copied == IF op.kind = "diskCopy" THEN [fs EXCEPT ![out] = fs[op.path[1]]]
                     ELSE IF op.kind = "diskWrite" THEN [fs EXCEPT ![out] = Some(op.data)]
                     ELSE fs
       IN
       /\ fs' = CleanupFs(copied, op.path)
       /\ tempFilesPathRegistry' = CleanupRegistry(copied, tempFilesPathRegistry, op.path)
       /\ result' = [result EXCEPT ![f] =
              IF op.kind = "memRead"
              THEN SubstitutedRecord(f, Some(fs[op.path[1]][1]), None,
                                     {<<"conversion", op.err>>})
              ELSE SubstitutedRecord(f, None, Some(out), {<<"pipeline", op.err>>})]
       /\ hist' = [hist EXCEPT ![f].writes =
              Append(@, IF op.kind = "memRead" THEN "memoryFallback" ELSE "diskFallback")]
    /\ fallbackOp' = [fallbackOp EXCEPT ![f].phase = "done"]
    /\ ctl' = [ctl EXCEPT ![f] = Resolve(@)]
    /\ UNCHANGED <<conversion, cloud, dir, up, conv, proc, files, faulty, safeFile, file, stream, teeBackup, backupState,
                   converter, diskstream, cloudUploadStream, uploads, cbs>>

\* handleDiskBackupFallback / handleMemoryBackupFallback rejects (the read
\* or the write failed, or the backup file is not there).
FallbackFails(f) ==
    /\ f \in files
    /\ fallbackOp[f].phase = "io"
    /\ \/ f \in faulty
       \/ fallbackOp[f].kind \in {"diskCopy", "memRead"} /\ fs[fallbackOp[f].path[1]] = None
    /\ result' = [result EXCEPT ![f] =
           FailedRecord(f, FallbackFailedErrors(fallbackOp[f].kind, fallbackOp[f].err,
                                                "E_FALLBACK"))]
    /\ hist' = [hist EXCEPT ![f].writes =
           Append(@, IF fallbackOp[f].kind = "memRead"
                     THEN "memoryFallbackFailed" ELSE "diskFallbackFailed")]
    /\ fallbackOp' = [fallbackOp EXCEPT ![f].phase = "done"]
    /\ ctl' = [ctl EXCEPT ![f] = Resolve(@)]
    /\ UNCHANGED <<conversion, cloud, dir, up, conv, proc, files, faulty, safeFile, file, stream, teeBackup, backupState, fs,
                   tempFilesPathRegistry, converter, diskstream, cloudUploadStream,
                   uploads, cbs>>

\* ------------------------------------------------------ the cloud branch

\* cloudResult.cloudUrl
CloudUrlOf(f) == <<"url", f>>

\* The catch of pendingPipeline in the cloud branch, up to the first await:
\* uploadToCloud(null, backupMetadata, ..., backupData) when a backup holds
\* content.
CloudPipelineCatch(f, msg) ==
    IF needsBackup /\ BackupHasContent(f)
    THEN /\ uploads' = [uploads EXCEPT ![f].fb =
                StartCall("null", Some(BackupData(f)), msg)]
         /\ hist' = [hist EXCEPT ![f].fallbacks = @ + 1, ![f].attempts = @ + 1,
                                 ![f].withBackup = @ \cup Mark(f, CauseOf(msg))]
         /\ UNCHANGED <<result, ctl>>
    ELSE /\ result' = [result EXCEPT ![f] =
                FailedRecord(f, {<<"conversion", msg>>, <<"message", msg>>})]
         /\ ctl' = [ctl EXCEPT ![f] = Resolve(@)]
         /\ hist' = [hist EXCEPT ![f].writes = Append(@, "cloudNoBackup")]
         /\ UNCHANGED uploads

\* The record a fulfilled uploadToCloud leaves: .then of pendingCloudUpload
\* (convert and pass-through), or the try of the pipeline catch.
UploadedRecord(f, slot) ==
    IF slot = "fb"
    THEN [FileFields(f) EXCEPT
            !.cloudUrl = Some(CloudUrlOf(f)),
            !.meta = Metadata(TRUE, FALSE, TRUE, {<<"conversion", uploads[f].fb.err>>})]
    ELSE IF shouldConvert(f)
    THEN [FileFields(f) EXCEPT
            !.cloudUrl = Some(CloudUrlOf(f)),
            !.mimetype = Some(ConvertedMime),
            !.originalSize = Some(ctl[f].originalFileSize),
            !.convertedSize = Some(ctl[f].cloudConvertedSize)]
    ELSE [FileFields(f) EXCEPT
            !.cloudUrl = Some(CloudUrlOf(f)),
            !.size = Some(ctl[f].originalFileSize)]

\* The record a rejected uploadToCloud leaves: .catch of pendingCloudUpload,
\* or catch(cloudErr) of the pipeline catch.
UploadFailedRecord(f, slot, cloudErr) ==
    IF slot = "fb"
    THEN FailedRecord(f, {<<"conversion", uploads[f].fb.err>>,
                          <<"cloudUpload", cloudErr>>,
                          <<"message", uploads[f].fb.err>>})
    ELSE FailedRecord(f, {<<"cloudUpload", cloudErr>>, <<"message", cloudErr>>})

\* What the handlers of a fulfilled upload do to backupState: both empty
\* the buffer and the size; only .then of pendingCloudUpload nulls the path.
BackupAfterUpload(f, slot) ==
    IF slot = "fb"
    THEN [backupState[f] EXCEPT !.backupBuffer = <<>>, !.backupTotalSize = 0]
    ELSE IF needsBackup
    THEN [backupState[f] EXCEPT !.backupBuffer = <<>>, !.backupTotalSize = 0,
                                !.backupPath = None]
    ELSE backupState[f]

\* The handlers of a fulfilled uploadToCloud call.
UploadFulfilled(f, slot) ==
    /\ result' = [result EXCEPT ![f] = UploadedRecord(f, slot)]
    /\ ctl' = [ctl EXCEPT ![f] = Resolve(@)]
    /\ backupState' = [backupState EXCEPT ![f] = BackupAfterUpload(f, slot)]
    /\ fs' = IF slot = "fb" \/ needsBackup
             THEN CleanupFs(fs, backupState[f].backupPath) ELSE fs
    /\ tempFilesPathRegistry' =
           IF slot = "fb" \/ needsBackup
           THEN CleanupRegistry(fs, tempFilesPathRegistry, backupState[f].backupPath)
           ELSE tempFilesPathRegistry

\* cloudUploadStream.once('readable') of the pass-through branch: the first
\* chunk was written, or the stream ended; uploadToCloud is called.
CloudOnReadable(f) ==
    /\ f \in files
    /\ isCloudUpload(f) /\ ~shouldConvert(f)
    /\ ~cloudUploadStream[f].uploadStarted
    /\ cloudUploadStream[f].buf # <<>> \/ cloudUploadStream[f].state = "ended"
    /\ cloudUploadStream' = [cloudUploadStream EXCEPT ![f].uploadStarted = TRUE]
    /\ uploads' = [uploads EXCEPT ![f].main =
           StartCall("stream", BackupDataAtConstruction, "none")]
    /\ hist' = [hist EXCEPT ![f].attempts = @ + 1]
    /\ UNCHANGED <<conversion, cloud, dir, up, conv, proc, files, faulty, safeFile, file, stream, teeBackup, ctl, result,
                   backupState, fs, tempFilesPathRegistry, converter, diskstream,
                   fallbackOp, cbs>>

\* adapter.upload(stream, metadata): stream.pipe(uploadStream) moves what
\* cloudUploadStream buffered to the remote.
UploadConsume(f) ==
    /\ f \in files
    /\ uploads[f].main.phase = "primary"
    /\ cloudUploadStream[f].state \in {"open", "ended"}
    /\ cloudUploadStream[f].buf # <<>>
    /\ uploads' = [uploads EXCEPT ![f].main.body = @ \o Flatten(cloudUploadStream[f].buf)]
    /\ cloudUploadStream' = [cloudUploadStream EXCEPT ![f].buf = <<>>]
    /\ UNCHANGED <<conversion, cloud, dir, up, conv, proc, files, faulty, safeFile, file, stream, teeBackup, ctl, result,
                   backupState, fs, tempFilesPathRegistry, converter, diskstream,
                   fallbackOp, cbs, hist>>

\* uploadToCloud: the first adapter.upload fulfils (the stream ended and the
\* remote has all of it), `return result`.
UploadAttemptSucceeds(f) ==
    /\ f \in files
    /\ uploads[f].main.phase = "primary"
    /\ uploads[f].main.source = "stream"
    /\ cloudUploadStream[f].state = "ended"
    /\ cloudUploadStream[f].buf = <<>>
    /\ uploads' = [uploads EXCEPT ![f].main.phase = "resolved"]
    /\ UploadFulfilled(f, "main")
    /\ hist' = [hist EXCEPT ![f].writes = Append(@, "cloudThen")]
    /\ UNCHANGED <<conversion, cloud, dir, up, conv, proc, files, faulty, safeFile, file, stream, teeBackup, converter,
                   diskstream, cloudUploadStream, fallbackOp, cbs>>

\* History: the primary upload failed while the backup held content.
FailedWithBackup(f, slot) ==
    IF slot = "main" /\ needsBackup /\ BackupHasContent(f) THEN {"upload"} ELSE {}

\* uploadToCloud: the first adapter.upload rejects (a null stream, a stream
\* destroyed under the adapter, or the remote failed).  With a usable
\* backup argument the one retry is started, otherwise the error is thrown
\* to the caller's catch.
UploadAttemptFails(f, slot) ==
    /\ f \in files
    /\ uploads[f][slot].phase = "primary"
    /\ \/ uploads[f][slot].source = "null"
       \/ f \in faulty
       \/ cloudUploadStream[f].state = "destroyed"
    /\ IF BackupUsable(uploads[f][slot].backup)
       THEN /\ uploads' = [uploads EXCEPT ![f][slot].phase = "retry",
                                         ![f][slot].tries = @ + 1]
            /\ hist' = [hist EXCEPT ![f].attempts = @ + 1, ![f].retries = @ + 1,
                                    ![f].withBackup = @ \cup FailedWithBackup(f, slot)]
            /\ UNCHANGED <<result, ctl>>
       ELSE /\ uploads' = [uploads EXCEPT ![f][slot].phase = "rejected"]
            /\ result' = [result EXCEPT ![f] = UploadFailedRecord(f, slot, "E_UPLOAD")]
            /\ ctl' = [ctl EXCEPT ![f] = Resolve(@)]
            /\ hist' = [hist EXCEPT
                   ![f].writes = Append(@, IF slot = "fb" THEN "cloudFallbackFailed"
                                           ELSE "cloudCatch"),
                   ![f].withBackup = @ \cup FailedWithBackup(f, slot)]
    /\ UNCHANGED <<conversion, cloud, dir, up, conv, proc, files, faulty, safeFile, file, stream, teeBackup, backupState, fs,
                   tempFilesPathRegistry, converter, diskstream, cloudUploadStream,
                   fallbackOp, cbs>>

\* The content a retry reads: fs.createReadStream(backup.path) when there is
\* a path, Readable.from(backup.buffer) otherwise.
RetryReadable(backup) == backup[1].path # None => fs[backup[1].path[1]] # None

RetryBody(backup) ==
    IF backup[1].path # None THEN fs[backup[1].path[1]][1] ELSE backup[1].buffer[1]

\* uploadToCloud: the retry fulfils.
UploadRetrySucceeds(f, slot) ==
    /\ f \in files
    /\ uploads[f][slot].phase = "retry"
    /\ RetryReadable(uploads[f][slot].backup)
    /\ uploads' = [uploads EXCEPT ![f][slot].phase = "resolved",
                                  ![f][slot].body = RetryBody(uploads[f][slot].backup)]
    /\ UploadFulfilled(f, slot)
    /\ hist' = [hist EXCEPT ![f].writes =
           Append(@, IF slot = "fb" THEN "cloudFallback" ELSE "cloudThen")]
    /\ UNCHANGED <<conversion, cloud, dir, up, conv, proc, files, faulty, safeFile, file, stream, teeBackup, converter,
                   diskstream, cloudUploadStream, fallbackOp, cbs>>

\* uploadToCloud: the retry rejects, `throw retryError`.
UploadRetryFails(f, slot) ==
    /\ f \in files
    /\ uploads[f][slot].phase = "retry"
    /\ f \in faulty \/ ~RetryReadable(uploads[f][slot].backup)
    /\ uploads' = [uploads EXCEPT ![f][slot].phase = "rejected"]
    /\ result' = [result EXCEPT ![f] = UploadFailedRecord(f, slot, "E_RETRY")]
    /\ ctl' = [ctl EXCEPT ![f] = Resolve(@)]
    /\ hist' = [hist EXCEPT ![f].writes =
           Append(@, IF slot = "fb" THEN "cloudFallbackFailed" ELSE "cloudCatch")]
    /\ UNCHANGED <<conversion, cloud, dir, up, conv, proc, files, faulty, safeFile, file, stream, teeBackup, backupState, fs,
                   tempFilesPathRegistry, converter, diskstream, cloudUploadStream,
                   fallbackOp, cbs>>

\* ------------------------------------------------- converter and disk

\* What the success handlers do to backupState: converter.on('end') of the
\* memory branch and diskstream.on('finish') of the disk convert branch
\* empty the buffer and null the path (backupTotalSize is left as it is).
BackupAfterSuccess(f) ==
    IF needsBackup
    THEN [backupState[f] EXCEPT !.backupBuffer = <<>>, !.backupPath = None]
    ELSE backupState[f]

\* An unshift that loses the chunk.
Unshift_Lost(s, chunk) == s

\* cloudUploadStream.unshift(firstChunk): the chunk goes back to the front
\* of what the stream holds.
Unshift(s, chunk) == IF s.state = "open" THEN [s EXCEPT !.buf = <<chunk>> \o @] ELSE s

\* cloudUploadStream.once('data') of the convert branch: the first chunk
\* leaves the stream as the argument of the listener, the listener puts it
\* back and calls uploadToCloud, whose adapter pipes the stream before the
\* listener returns.
OnceData(s) ==
    LET firstChunk == Head(s.buf) IN
    [Unshift([s EXCEPT !.buf = Tail(@)], firstChunk) EXCEPT !.uploadStarted = TRUE]

\* The converter emits 'data': one converted chunk.  Memory: the 'data'
\* handler; disk and cloud: the pipeline writes it downstream, and in the
\* cloud branch the first chunk triggers cloudUploadStream.once('data'),
\* which calls uploadToCloud.
ConverterOnData(f) ==
    /\ f \in files
    /\ converter[f].state = "open"
    /\ converter[f].inq # <<>>
    /\ LET out == SharpConvert(Head(converter[f].inq)) IN
       /\ converter' = [converter EXCEPT ![f].inq = Tail(@)]
       /\ ctl' = [ctl EXCEPT
              ![f].memoryBuffer =
                  IF ~isCloudUpload(f) /\ file[f].output = "memory"
                  THEN Append(@, out) ELSE @,
              ![f].convertedFileSize =
                  IF ~isCloudUpload(f) /\ file[f].output = "memory"
                  THEN @ + Len(out) ELSE @,
              ![f].cloudConvertedSize = IF isCloudUpload(f) THEN @ + Len(out) ELSE @]
       /\ diskstream' = IF ~isCloudUpload(f) /\ file[f].output = "disk"
                        THEN [diskstream EXCEPT ![f] = DiskWrite(@, out)]
                        ELSE diskstream
       /\ cloudUploadStream' =
              IF isCloudUpload(f)
              THEN [cloudUploadStream EXCEPT
                      ![f] = IF @.uploadStarted THEN CloudWrite(@, out)
                             ELSE OnceData(CloudWrite(@, out))]
              ELSE cloudUploadStream
       /\ uploads' = IF isCloudUpload(f) /\ ~cloudUploadStream[f].uploadStarted
                     THEN [uploads EXCEPT ![f].main =
                             StartCall("stream", BackupDataAtConstruction, "none")]
                     ELSE uploads
       /\ hist' = IF isCloudUpload(f) /\ ~cloudUploadStream[f].uploadStarted
                  THEN [hist EXCEPT ![f].attempts = @ + 1]
                  ELSE hist
    /\ UNCHANGED <<conversion, cloud, dir, up, conv, proc, files, faulty, safeFile, file, stream, teeBackup, result,
                   backupState, fs, tempFilesPathRegistry, fallbackOp, cbs>>

\* The converter emits 'end'.  Memory: converter.on('end'); disk and cloud:
\* the pipeline ends the next stream.
ConverterOnEnd(f) ==
    /\ f \in files
    /\ converter[f].state = "open"
    /\ converter[f].inEnded
    /\ converter[f].inq = <<>>
    /\ converter' = [converter EXCEPT ![f].state = "ended"]
    /\ diskstream' = IF ~isCloudUpload(f) /\ file[f].output = "disk"
                     THEN [diskstream EXCEPT ![f] = DiskEnd(@)]
                     ELSE diskstream
    /\ cloudUploadStream' = IF isCloudUpload(f)
                            THEN [cloudUploadStream EXCEPT ![f] = CloudEnd(@)]
                            ELSE cloudUploadStream
    /\ IF ~isCloudUpload(f) /\ file[f].output = "memory"
       THEN /\ backupState' = [backupState EXCEPT ![f] = BackupAfterSuccess(f)]
            /\ fs' = IF needsBackup THEN CleanupFs(fs, backupState[f].backupPath) ELSE fs
            /\ tempFilesPathRegistry' =
                   IF needsBackup
                   THEN CleanupRegistry(fs, tempFilesPathRegistry,
                                        backupState[f].backupPath)
                   ELSE tempFilesPathRegistry
            /\ result' = [result EXCEPT ![f] =
                   [FileFields(f) EXCEPT
                      !.buffer = Some(BufferConcat(ctl[f].memoryBuffer,
                                                   ctl[f].convertedFileSize)),
                      !.mimetype = Some(ConvertedMime),
                      !.size = Some(ctl[f].convertedFileSize),
                      !.originalSize = Some(ctl[f].originalFileSize)]]
            /\ ctl' = [ctl EXCEPT ![f] = Resolve(@)]
            /\ hist' = [hist EXCEPT ![f].writes = Append(@, "memoryEnd")]
       ELSE UNCHANGED <<backupState, fs, tempFilesPathRegistry, result, ctl, hist>>
    /\ UNCHANGED <<conversion, cloud, dir, up, conv, proc, files, faulty, safeFile, file, stream, teeBackup, uploads,
                   fallbackOp, cbs>>

\* The converter emits 'error'.  Memory: converter.on('error'); disk and
\* cloud: the pipeline destroys the sink stream and rejects, its catch runs.
ConverterOnError(f) ==
    /\ f \in files
    /\ f \in faulty
    /\ converter[f].state = "open"
    /\ converter' = [converter EXCEPT ![f].state = "errored", ![f].inq = <<>>]
    /\ diskstream' = IF ~isCloudUpload(f) /\ file[f].output = "disk"
                     THEN [diskstream EXCEPT ![f].state = "destroyed", ![f].pending = <<>>]
                     ELSE diskstream
    /\ cloudUploadStream' =
           IF isCloudUpload(f)
           THEN [cloudUploadStream EXCEPT ![f].state = "destroyed", ![f].buf = <<>>]
           ELSE cloudUploadStream
    /\ IF isCloudUpload(f)
       THEN CloudPipelineCatch(f, "E_CONVERT") /\ UNCHANGED fallbackOp
       ELSE IF file[f].output = "disk"
       THEN DiskPipelineCatch(f, "E_CONVERT") /\ UNCHANGED uploads
       ELSE MemoryOnError(f) /\ UNCHANGED uploads
    /\ UNCHANGED <<conversion, cloud, dir, up, conv, proc, files, faulty, safeFile, file, stream, teeBackup, backupState, fs,
                   tempFilesPathRegistry, cbs>>

\* diskstream writes what it buffered to the file at outputPath.
DiskDrain(f) ==
    /\ f \in files
    /\ diskstream[f].state \in {"open", "ending"}
    /\ diskstream[f].pending # <<>>
    /\ LET out == OutputPathOf(f)
           old == IF fs[out] = None THEN <<>> ELSE fs[out][1]
       IN fs' = [fs EXCEPT ![out] = Some(old \o Flatten(diskstream[f].pending))]
    /\ diskstream' = [diskstream EXCEPT ![f].pending = <<>>]
    /\ UNCHANGED <<conversion, cloud, dir, up, conv, proc, files, faulty, safeFile, file, stream, teeBackup, ctl, result,
                   backupState, tempFilesPathRegistry, converter, cloudUploadStream,
                   uploads, fallbackOp, cbs, hist>>

\* diskstream emits 'error' (the open or a write failed).  Pass-through:
\* diskstream.on('error'); convert: the pipeline destroys the converter and
\* rejects, its catch runs.
DiskOnError(f) ==
    /\ f \in files
    /\ f \in faulty
    /\ diskstream[f].state \in {"open", "ending"}
    /\ diskstream' = [diskstream EXCEPT ![f].state = "destroyed", ![f].pending = <<>>]
    /\ IF shouldConvert(f)
       THEN /\ converter' = [converter EXCEPT
                   ![f].state = IF @ = "open" THEN "destroyed" ELSE @, ![f].inq = <<>>]
            /\ DiskPipelineCatch(f, "E_DISK")
       ELSE /\ result' = [result EXCEPT ![f] =
                   FailedRecord(f, {<<"diskWrite", "E_DISK">>, <<"message", "E_DISK">>})]
            /\ ctl' = [ctl EXCEPT ![f] = Resolve(@)]
            /\ hist' = [hist EXCEPT ![f].writes = Append(@, "diskError"),
                                    ![f].withBackup = @ \cup Mark(f, "disk")]
            /\ UNCHANGED <<converter, fallbackOp>>
    /\ UNCHANGED <<conversion, cloud, dir, up, conv, proc, files, faulty, safeFile, file, stream, teeBackup, backupState, fs,
                   tempFilesPathRegistry, cloudUploadStream, uploads, cbs>>

\* What fsPromise.rename and fsPromise.stat do in diskstream.on('finish')
\* of the convert branch.
FinishOutcomes == {"ok", "renameFails", "statFails", "renameAndStatFail"}

\* diskstream emits 'finish'.  Pass-through: the result is the output path.
\* Convert: the backup is dropped, the file is renamed to the converted
\* name and its size read; a failed rename is caught and the file keeps its
\* name; a stat that fails (in the try, then again in the catch) rejects the
\* handler before it resolves the promise.
DiskOnFinish(f, outcome) ==
    /\ f \in files
    /\ diskstream[f].state = "ending"
    /\ diskstream[f].pending = <<>>
    /\ outcome # "ok" => f \in faulty /\ shouldConvert(f)
    /\ outcome \in {"statFails", "renameAndStatFail"} => ctl[f].originalFileSize > 0
    /\ diskstream' = [diskstream EXCEPT ![f].state = "finished"]
    /\ LET out == OutputPathOf(f)
           rev == RevisedOutputPathOf(f)
           content == IF fs[out] = None THEN <<>> ELSE fs[out][1]
           cleaned == IF shouldConvert(f) /\ needsBackup
                      THEN CleanupFs(fs, backupState[f].backupPath) ELSE fs
           renamed == outcome \in {"ok", "statFails"}
       IN
       /\ fs' = IF shouldConvert(f) /\ renamed
                THEN [cleaned EXCEPT ![out] = None, ![rev] = Some(content)]
                ELSE [cleaned EXCEPT ![out] = Some(content)]
       /\ tempFilesPathRegistry' =
              IF shouldConvert(f) /\ needsBackup
              THEN CleanupRegistry(fs, tempFilesPathRegistry, backupState[f].backupPath)
              ELSE tempFilesPathRegistry
       /\ backupState' = IF shouldConvert(f)
                         THEN [backupState EXCEPT ![f] = BackupAfterSuccess(f)]
                         ELSE backupState
       /\ IF ~shouldConvert(f)
          THEN /\ result' = [result EXCEPT ![f] =
                      [FileFields(f) EXCEPT !.path = Some(out),
                                            !.size = Some(ctl[f].originalFileSize)]]
               /\ hist' = [hist EXCEPT ![f].writes = Append(@, "diskPassFinish")]
               /\ ctl' = [ctl EXCEPT ![f] = Resolve(@)]
          ELSE IF outcome \in {"statFails", "renameAndStatFail"}
          THEN UNCHANGED <<result, hist, ctl>>
          ELSE IF ctl[f].originalFileSize > 0
          THEN /\ result' = [result EXCEPT ![f] =
                      [FileFields(f) EXCEPT
                         !.path = IF renamed THEN Some(rev) ELSE Some(<<"basename", f>>),
                         !.mimetype = Some(ConvertedMime),
                         !.originalSize = Some(ctl[f].originalFileSize),
                         !.convertedSize = Some(Len(content))]]
               /\ hist' = [hist EXCEPT ![f].writes = Append(@, "diskFinish")]
               /\ ctl' = [ctl EXCEPT ![f] = Resolve(@)]
          ELSE /\ ctl' = [ctl EXCEPT ![f] = Resolve(@)]
               /\ UNCHANGED <<result, hist>>
    /\ UNCHANGED <<conversion, cloud, dir, up, conv, proc, files, faulty, safeFile, file, stream, teeBackup, converter,
                   cloudUploadStream, uploads, fallbackOp, cbs>>

\* ------------------------------------------------- process termination

\* A drain that stops at the first path whose unlink throws.
Drain_StopAtFailure(fsys, reg, failing) ==
    IF failing # {} THEN fsys
    ELSE [p \in Paths |-> IF p \in reg THEN None ELSE fsys[p]]

\* `for (const tempPath of tempFilesPathRegistry) try { if
\* (fs.existsSync(tempPath)) fs.unlinkSync(tempPath) } catch {}`: every
\* registered path that exists is unlinked, except those whose unlink throws.
Drain(fsys, reg, failing) ==
    [p \in Paths |-> IF p \in reg /\ p \notin failing THEN None ELSE fsys[p]]

\* The registered paths whose file exists: the only ones unlinkSync is
\* called on, hence the only ones it can throw for.
Unlinkable(fsys, reg) == { p \in reg : fsys[p] # None }

\* The closure state of a process that has ended: nothing is open, nothing is
\* pending, nothing was delivered.
Gone ==
    [stream |-> [f \in FileIds |-> [pos |-> 0, state |-> "open"]],
     teeBackup |-> [f \in FileIds |-> [q |-> <<>>, ended |-> FALSE]],
     ctl |-> [f \in FileIds |->
                [originalFileSize |-> 0, memoryBuffer |-> <<>>, totalSize |-> 0,
                 convertedFileSize |-> 0, cloudConvertedSize |-> 0,
                 flushed |-> FALSE, destroyed |-> FALSE, finished |-> FALSE,
                 promise |-> "null"]],
     result |-> [f \in FileIds |-> NoResult],
     backupState |-> [f \in FileIds |-> InitBackupState],
     converter |-> [f \in FileIds |-> [state |-> "null", inq |-> <<>>, inEnded |-> FALSE]],
     diskstream |-> [f \in FileIds |-> [state |-> "null", pending |-> <<>>]],
     cloudUploadStream |-> [f \in FileIds |->
                              [state |-> "null", buf |-> <<>>, uploadStarted |-> FALSE]],
     uploads |-> [f \in FileIds |-> [main |-> IdleCall, fb |-> IdleCall]],
     fallbackOp |-> [f \in FileIds |-> IdleFallback],
     cbs |-> [f \in FileIds |-> <<>>],
     hist |-> [f \in FileIds |->
                 [writes |-> <<>>, fallbacks |-> 0, attempts |-> 0, retries |-> 0,
                  withBackup |-> {}, mainSeen |-> <<>>, backupSeen |-> <<>>]]]

\* What the process leaves when it ends: its memory (the closures of the
\* files, the registry) is gone, the file system stays.  proc keeps what
\* the last drain iterated over, for the record.
Ended(how, fsys, failing) ==
    /\ fs' = fsys
    /\ proc' = [state |-> how,
                registered |-> tempFilesPathRegistry,
                existed |-> Unlinkable(fs, tempFilesPathRegistry),
                kept |-> failing,
                open |-> { BackupPathOf(f) : f \in
                             { g \in files : backupState[g].backupWriteStream
                                               \in {"open", "ending"} } }]
    /\ tempFilesPathRegistry' = {}
    /\ stream' = Gone.stream
    /\ teeBackup' = Gone.teeBackup
    /\ ctl' = Gone.ctl
    /\ result' = Gone.result
    /\ backupState' = Gone.backupState
    /\ converter' = Gone.converter
    /\ diskstream' = Gone.diskstream
    /\ cloudUploadStream' = Gone.cloudUploadStream
    /\ uploads' = Gone.uploads
    /\ fallbackOp' = Gone.fallbackOp
    /\ cbs' = Gone.cbs
    /\ hist' = Gone.hist
    /\ UNCHANGED <<conversion, cloud, dir, up, conv, files, faulty, safeFile, file>>

\* The process ended through process.exit or by running out of work.
Exited(fsys, failing) == Ended("exited", fsys, failing)

\* process.on('exit'): the process ends normally.
OnExit ==
    /\ proc.state = "running"
    /\ \E failing \in SUBSET Unlinkable(fs, tempFilesPathRegistry) :
          Exited(Drain(fs, tempFilesPathRegistry, failing), failing)

\* process.on(SIGINT | SIGTERM | SIGHUP): the drain, then process.exit(0),
\* which emits 'exit' and runs the drain of the exit handler.
OnSignal ==
    /\ proc.state = "running"
    /\ \E failing \in SUBSET Unlinkable(fs, tempFilesPathRegistry) :
          LET first == Drain(fs, tempFilesPathRegistry, failing) IN
          \E again \in SUBSET Unlinkable(first, tempFilesPathRegistry) :
              Exited(Drain(first, tempFilesPathRegistry, again), again)

\* backupState.backupWriteStream emits 'error': the open of the temp file or
\* a write to it failed (ENOSPC, EACCES, EIO).  createBackup attaches no
\* 'error' listener to the stream it creates with fs.createWriteStream, and
\* nothing else does: the event is thrown as an uncaught exception, and the
\* process ends.  Node emits 'exit' on the way out, so the drain of the exit
\* handler runs; the file of the failed write may or may not exist by then.
BackupWriteError(f) ==
    /\ proc.state = "running"
    /\ f \in files
    /\ f \in faulty
    /\ backupState[f].backupWriteStream \in {"open", "ending"}
    /\ backupState[f].pending # <<>>
    /\ \E failing \in SUBSET Unlinkable(fs, tempFilesPathRegistry) :
          Ended("crashed", Drain(fs, tempFilesPathRegistry, failing), failing)

\* An 'error' event without a listener, on any file of the request.
OnUncaughtException == \E f \in FileIds : BackupWriteError(f)

\* ------------------------------------------------------ the specification

Slots == {"main", "fb"}

\* _handleFile's format check rejects the file: cb(null, record), before
\* the tee, the controller and the pipeline.
RejectUnsupported(f) ==
    /\ f \in files
    /\ Unsupported(f)
    /\ cbs[f] = <<>>
    /\ cbs' = [cbs EXCEPT ![f] = Append(@, [err |-> None, record |-> UnsupportedRecord(f)])]
    /\ UNCHANGED <<conversion, cloud, dir, up, conv, proc, files, faulty, safeFile, file, stream, teeBackup, ctl, result,
                   backupState, fs, tempFilesPathRegistry, converter, diskstream,
                   cloudUploadStream, uploads, fallbackOp, hist>>

\* The handlers of the controller of one file.
ControllerStep(f) ==
        \/ transform(f)
        \/ flush(f)
        \/ HandleFileDone(f)
        \/ SourceError(f)
        \/ BackupOnData(f)
        \/ BackupOnEnd(f)
        \/ BackupWriteDrain(f)
        \/ ConverterOnData(f)
        \/ ConverterOnEnd(f)
        \/ ConverterOnError(f)
        \/ DiskDrain(f)
        \/ DiskOnError(f)
        \/ \E outcome \in FinishOutcomes : DiskOnFinish(f, outcome)
        \/ FallbackSucceeds(f)
        \/ FallbackFails(f)
        \/ CloudOnReadable(f)
        \/ UploadConsume(f)
        \/ UploadAttemptSucceeds(f)
        \/ \E slot \in Slots : UploadAttemptFails(f, slot)
        \/ \E slot \in Slots : UploadRetrySucceeds(f, slot)
        \/ \E slot \in Slots : UploadRetryFails(f, slot)

\* _handleFile for one file: the format check, then the controller.
FileStep(f) ==
    \/ RejectUnsupported(f)
    \/ ~Unsupported(f) /\ ControllerStep(f)

\* The handlers run while the process does.
FileSteps == proc.state = "running" /\ \E f \in FileIds : FileStep(f)

Next ==
    \/ FileSteps
    \/ OnExit
    \/ OnSignal
    \/ OnUncaughtException

Spec == Init /\ [][Next]_vars

\* Every stream stage and every started I/O operation eventually ends or
\* fails: whenever some handler can run, one eventually does.
SpecLive == Init /\ [][Next]_vars /\ WF_vars(FileSteps)

\* A request with two files processed concurrently.  The collaborators of
\* file 1 (an image, any destination and mode) may fail at any point; file 2
\* is an image converted to disk whose collaborators never fail.
IsoInputs == { << <<1, 2, 3>> >>, << <<4, 5, 6, 7>>, <<4, 5, 6, 7>> >> }

InitIso ==
    /\ InitOf({1, 2}, {1})
    /\ conversion = NoConversion /\ cloud = NoCloud /\ dir = NoDir /\ up = NoUpload /\ conv = NoConvert
    /\ file[1].input \in IsoInputs
    /\ file[2].input = << <<1, 2, 3>> >>
    /\ file[1].mimetype \in ImageMimetypes
    /\ file[1].mimetype = "image/bmp" => ~file[1].keepOriginal
    /\ file[2].mimetype = "image/png"
    /\ ~file[2].keepOriginal
    /\ file[2].output = "disk"

SpecIso == InitIso /\ [][Next]_vars

\* -------------------------------------------------- reading the results

\* _handleFile called its callback for the file.
Delivered(f) == cbs[f] # <<>>

\* The callback was cb(null, record).
DeliveredRecord(f) == Delivered(f) /\ cbs[f][1].err = None

RecordOf(f) == cbs[f][1].record

\* The three terminal classifications of a record.
IsFailed(r) ==
    /\ r.meta # None
    /\ r.meta[1].isSkipped /\ ~r.meta[1].isProcessed /\ ~r.meta[1].isBackupFallback

IsBackupSubstituted(r) ==
    /\ r.meta # None
    /\ r.meta[1].isBackupFallback /\ ~r.meta[1].isSkipped /\ r.meta[1].isProcessed

IsSucceeded(r) == r.defined /\ r.meta = None /\ r.error = None

\* The error messages of a record, and the stages it names.
Messages(r) == { e[2] : e \in r.meta[1].errors }

Stages(r) == { e[1] : e \in r.meta[1].errors } \ {"message"}

Wrote(f, tags) == \E i \in 1..Len(hist[f].writes) : hist[f].writes[i] \in tags

FallbackSuccessTags == {"memoryFallback", "diskFallback", "cloudFallback"}

FallbackFailureTags == {"memoryFallbackFailed", "diskFallbackFailed", "cloudFallbackFailed"}

PrimaryMessages == {"E_CONVERT", "E_DISK"}

FallbackMessages == {"E_FALLBACK", "E_UPLOAD", "E_RETRY"}

\* The complete input of the file, as one buffer.
InputBytes(f) == Flatten(file[f].input)

\* ------------------------------------------------------------------ claims

\* C1: controller.result is written by exactly one terminal branch, no
\* other branch writes a different record afterwards, and the completion
\* callback fires exactly once carrying that record.
C1_ExactlyOneTerminalWrite ==
    \A f \in files :
        /\ Len(hist[f].writes) <= 1
        /\ Len(cbs[f]) <= 1
        /\ DeliveredRecord(f) => Len(hist[f].writes) = 1 /\ RecordOf(f) = result[f]

\* C2: liveness - every file accepted by _handleFile eventually has its
\* completion callback invoked, whatever the destination, mode and backup
\* setting; flush never waits forever on the processing-complete promise.
C2_CallbackEventuallyInvoked ==
    \A f \in FileIds : (f \in files) ~> (Delivered(f) \/ proc.state # "running")

\* C3: a BackupSubstituted result in memory or on disk is byte-identical to
\* the complete input of N bytes, and result.size is N.
C3_SubstituteIsWholeInput ==
    \A f \in files :
        DeliveredRecord(f) /\ IsBackupSubstituted(RecordOf(f)) /\ ~isCloudUpload(f) =>
            /\ RecordOf(f).size = Some(Len(InputBytes(f)))
            /\ file[f].output = "memory" => RecordOf(f).buffer = Some(InputBytes(f))
            /\ file[f].output = "disk" => fs[OutputPathOf(f)] = Some(InputBytes(f))

\* C4: converter error, backup with content, fallback delivery succeeded:
\* the result is BackupSubstituted, keeps the declared mimetype and names
\* the failed primary stage.
C4_FallbackSuccessIsSubstituted ==
    \A f \in files :
        /\ DeliveredRecord(f)
        /\ "converter" \in hist[f].withBackup
        /\ Wrote(f, FallbackSuccessTags)
        => /\ IsBackupSubstituted(RecordOf(f))
           /\ RecordOf(f).mimetype = Some(file[f].mimetype)
           /\ Stages(RecordOf(f)) \cap {"conversion", "pipeline"} # {}

\* C5: converter error, backup with content, fallback delivery failed: the
\* result is Failed and its error record holds the primary error message
\* and, separately, the fallback error message.
C5_FallbackFailureNamesBoth ==
    \A f \in files :
        /\ DeliveredRecord(f)
        /\ "converter" \in hist[f].withBackup
        /\ Wrote(f, FallbackFailureTags)
        /\ ~Wrote(f, FallbackSuccessTags)
        => /\ IsFailed(RecordOf(f))
           /\ Messages(RecordOf(f)) \cap PrimaryMessages # {}
           /\ Messages(RecordOf(f)) \cap FallbackMessages # {}

C7_FailuresStayInTheRecord ==
    \A f \in files :
        \A i \in 1..Len(cbs[f]) :
            /\ cbs[f][i].err # None => stream[f].state = "errored" /\ ~needsBackup
            /\ cbs[f][i].err = None /\ cbs[f][i].record.meta # None =>
                   cbs[f][i].record.meta[1].errors # {}

C7_Witness ==
    /\ stream[1].state = "ended"
    /\ \/ converter[1].state = "errored"
       \/ diskstream[1].state = "destroyed"
       \/ uploads[1].main.phase = "rejected"
       \/ Wrote(1, FallbackFailureTags)
    /\ DeliveredRecord(1) /\ IsFailed(RecordOf(1))

\* C9: safeFile on, backup content captured, the primary cloud upload
\* fails: the upload is retried exactly once with the backup content.
C9_UploadRetriedOnce ==
    \A f \in files :
        "upload" \in hist[f].withBackup => uploads[f].main.tries = 2

\* C10: backup content captured and the disk sink fails, in convert or in
\* pass-through mode: a fallback delivery from the backup is performed, and
\* the file does not end Failed without it.
C10_DiskFailureFallsBack ==
    \A f \in files :
        "disk" \in hist[f].withBackup => hist[f].fallbacks >= 1

\* The paths one file's handlers name: its temp backup file, its output file
\* and the renamed output of a conversion.
OwnPaths(f) == {BackupPathOf(f), OutputPathOf(f), RevisedOutputPathOf(f)}

\* Everything one file's closure holds, and the part of the file system and
\* of the temp-file registry under its own paths.
FileState(f) ==
    <<file[f], stream[f], teeBackup[f], ctl[f], result[f], backupState[f],
      converter[f], diskstream[f], cloudUploadStream[f], uploads[f],
      fallbackOp[f], cbs[f], hist[f],
      [p \in OwnPaths(f) |-> fs[p]], tempFilesPathRegistry \cap OwnPaths(f)>>

\* What the converter yields for the whole input of a file.
ConvertedBytes(f) ==
    Flatten([i \in 1..Len(file[f].input) |-> SharpConvert(file[f].input[i])])

\* The record a file is delivered with when it is the only file of the
\* request and none of its collaborators fails.
AloneRecord(f) ==
    LET n == SumLen(file[f].input)
        m == Len(ConvertedBytes(f))
    IN
    IF isCloudUpload(f)
    THEN IF shouldConvert(f)
         THEN [FileFields(f) EXCEPT !.cloudUrl = Some(CloudUrlOf(f)),
                                    !.mimetype = Some(ConvertedMime),
                                    !.originalSize = Some(n),
                                    !.convertedSize = Some(m)]
         ELSE [FileFields(f) EXCEPT !.cloudUrl = Some(CloudUrlOf(f)),
                                    !.size = Some(n)]
    ELSE IF file[f].output = "disk"
    THEN IF ~shouldConvert(f)
         THEN [FileFields(f) EXCEPT !.path = Some(OutputPathOf(f)), !.size = Some(n)]
         ELSE IF n = 0 THEN NoResult
         ELSE [FileFields(f) EXCEPT !.path = Some(RevisedOutputPathOf(f)),
                                    !.mimetype = Some(ConvertedMime),
                                    !.originalSize = Some(n),
                                    !.convertedSize = Some(m)]
    ELSE IF shouldConvert(f)
    THEN [FileFields(f) EXCEPT !.buffer = Some(ConvertedBytes(f)),
                               !.mimetype = Some(ConvertedMime),
                               !.size = Some(m),
                               !.originalSize = Some(n)]
    ELSE [FileFields(f) EXCEPT !.buffer = Some(Flatten(file[f].input)),
                               !.size = Some(n)]

C11_ConversionFailurePassesThrough ==
    \A f \in files :
        (/\ ~safeFile
         /\ ~isCloudUpload(f)
         /\ converter[f].state = "errored"
         /\ DeliveredRecord(f)) =>
            IF file[f].output = "disk"
            THEN /\ RecordOf(f).path # None
                 /\ fs[RecordOf(f).path[1]] = Some(InputBytes(f))
            ELSE RecordOf(f).buffer = Some(InputBytes(f))

\* s is an initial segment of t.
IsPrefix(s, t) == Len(s) <= Len(t) /\ \A i \in 1..Len(s) : s[i] = t[i]

\* The bytes the terminal sink of a pass-through file holds: the chunks
\* pushed to memoryBuffer, the content of the output file, the body the
\* cloud adapter received from cloudUploadStream.
SinkBytes(f) ==
    IF isCloudUpload(f) THEN uploads[f].main.body
    ELSE IF file[f].output = "disk"
    THEN (IF fs[OutputPathOf(f)] = None THEN <<>> ELSE fs[OutputPathOf(f)][1])
    ELSE Flatten(ctl[f].memoryBuffer)

\* The size a successful pass-through record reports.
ReportedSize(f) == RecordOf(f).size

\* C12: pass-through byte-exactness - when no conversion applies, the
\* terminal sink holds at every moment an initial segment of the input
\* bytes, in order, and a file delivered as succeeded left exactly the N
\* input bytes in the sink and reports size N, whatever the chunking.
C12_PassThroughByteExact ==
    \A f \in files :
        ~shouldConvert(f) =>
            /\ IsPrefix(SinkBytes(f), InputBytes(f))
            /\ DeliveredRecord(f) /\ IsSucceeded(RecordOf(f)) =>
                   /\ SinkBytes(f) = InputBytes(f)
                   /\ ReportedSize(f) = Some(SumLen(file[f].input))
                   /\ file[f].output = "memory" /\ ~isCloudUpload(f) =>
                          RecordOf(f).buffer = Some(InputBytes(f))

\* Pass-through files of two different chunks were delivered from each sink.
C12_Witness ==
    /\ ~shouldConvert(1)
    /\ file[1].input = << <<1, 2, 3>>, <<4, 5, 6, 7>> >>
    /\ file[1].output = "disk"
    /\ DeliveredRecord(1) /\ IsSucceeded(RecordOf(1))

\* C13: tee equivalence - with safeFile on, the controller (behind teeMain)
\* and createBackup (behind teeBackup) each receive every chunk read from
\* the source exactly once and in the source's order: what the backup view
\* received plus what teeBackup still holds is what the controller
\* received, and once the stream ended and teeBackup is drained both
\* sequences are the source's chunk sequence.
C13_TeeEquivalence ==
    \A f \in files :
        safeFile =>
            /\ hist[f].mainSeen = SubSeq(file[f].input, 1, stream[f].pos)
            /\ hist[f].backupSeen \o teeBackup[f].q = hist[f].mainSeen
            /\ stream[f].state = "ended" /\ teeBackup[f].ended =>
                   /\ hist[f].mainSeen = file[f].input
                   /\ hist[f].backupSeen = file[f].input

\* Both views saw a two-chunk input to its end.
C13_Witness ==
    /\ safeFile
    /\ file[1].input = << <<1, 2, 3>>, <<4, 5, 6, 7>> >>
    /\ stream[1].state = "ended" /\ teeBackup[1].ended
    /\ hist[1].backupSeen = file[1].input

\* What the backup capture of a file holds: the in-memory chunk list, or
\* the temp file followed by the writes backupWriteStream has not flushed.
CapturedBytes(f) ==
    LET st == backupState[f] IN
    IF st.useMemoryBackup THEN Flatten(st.backupBuffer)
    ELSE (IF fs[BackupPathOf(f)] = None THEN <<>> ELSE fs[BackupPathOf(f)][1])
         \o Flatten(st.pending)

\* No handler has released or consumed the backup of the file yet.
BackupUntouched(f) ==
    /\ hist[f].writes = <<>>
    /\ fallbackOp[f].phase = "idle"
    /\ uploads[f].fb.phase = "idle"
    /\ diskstream[f].state # "finished"
    /\ cbs[f] = <<>>

C15_SpillModeInvariant ==
    \A f \in files :
        /\ backupState[f].useMemoryBackup <=>
               SumLen(hist[f].backupSeen) <= LARGE_FILE_THRESHOLD_BYTES
        /\ ~backupState[f].useMemoryBackup =>
               /\ backupState[f].backupBuffer = <<>>
               /\ backupState[f].backupPath # None

\* C15 as amended: the spill mode invariant holds from the construction of
\* the capture until a terminal handler releases the backup.
C15_SpillModeUntilRelease ==
    \A f \in files :
        BackupUntouched(f) =>
            /\ backupState[f].useMemoryBackup <=>
                   SumLen(hist[f].backupSeen) <= LARGE_FILE_THRESHOLD_BYTES
            /\ backupState[f].backupTotalSize = SumLen(hist[f].backupSeen)
            /\ ~backupState[f].useMemoryBackup =>
                   /\ backupState[f].backupBuffer = <<>>
                   /\ backupState[f].backupPath # None

\* A capture that received exactly the threshold and stayed in memory.
C15_Witness ==
    /\ BackupUntouched(1)
    /\ SumLen(hist[1].backupSeen) = LARGE_FILE_THRESHOLD_BYTES
    /\ backupState[1].useMemoryBackup
    /\ Len(backupState[1].backupBuffer) = 2

\* C16: registry ordering - the path of a backup temp file is in
\* tempFilesPathRegistry once its write stream exists and before any byte is
\* written, and it leaves the registry when the file is deleted: every temp
\* file that exists on disk is registered, and no path of a deleted temp
\* file (created by its write stream, then unlinked) stays registered.
C16_RegistryOrdering ==
    proc.state = "running" =>
    \A f \in files :
        LET p == BackupPathOf(f) IN
        /\ backupState[f].backupWriteStream # "null" /\ ~backupState[f].opened =>
               p \in tempFilesPathRegistry
        /\ fs[p] # None => p \in tempFilesPathRegistry
        /\ backupState[f].opened /\ fs[p] = None => p \notin tempFilesPathRegistry

\* A spilled backup file was written, then deleted and unregistered.
C16_Witness ==
    /\ backupState[1].opened
    /\ fs[BackupPathOf(1)] = None
    /\ BackupPathOf(1) \notin tempFilesPathRegistry

\* C17: temp cleanup at completion - when the completion callback of a file
\* fires, whatever the terminal state and the destination, the backup temp
\* file created for the file no longer exists and its path is no longer in
\* tempFilesPathRegistry.
C17_TempCleanedAtCompletion ==
    [][ \A f \in files :
          Len(cbs'[f]) > Len(cbs[f]) =>
              /\ fs'[BackupPathOf(f)] = None
              /\ BackupPathOf(f) \notin tempFilesPathRegistry' ]_vars

\* C18: termination drain - when the process ends, normally or on SIGINT,
\* SIGTERM or SIGHUP, the drain attempts to delete every path then in
\* tempFilesPathRegistry, the files whose write streams are still open
\* included, and an unlink that fails does not keep the other paths from
\* being deleted.
C18_TerminationDrain ==
    proc.state = "exited" =>
        \A p \in proc.registered :
            p \in proc.existed \ proc.kept => fs[p] = None

\* The process ended with two registered temp files on disk, one of them
\* with its write stream still open; one unlink failed and the other file
\* is gone.
C18_Witness ==
    /\ proc.state = "exited"
    /\ proc.open # {}
    /\ proc.open \subseteq proc.existed
    /\ proc.kept # {}
    /\ proc.existed \ proc.kept # {}
    /\ \A p \in proc.existed \ proc.kept : fs[p] = None

\* The record of the format check, and nothing a sink would have produced.
IsUnsupportedFailure(r) ==
    /\ r.error = Some("E_UNSUPPORTED_FORMAT")
    /\ r.skipped = Some(TRUE)
    /\ r.processed = Some(FALSE)
    /\ r.buffer = None /\ r.path = None /\ r.cloudUrl = None

\* Nothing of the file was read, captured, built or written.
Untouched(f) ==
    /\ stream[f].pos = 0
    /\ hist[f].mainSeen = <<>> /\ hist[f].backupSeen = <<>>
    /\ teeBackup[f] = [q |-> <<>>, ended |-> FALSE]
    /\ backupState[f] = InitBackupState
    /\ converter[f].state = "null"
    /\ diskstream[f].state = "null"
    /\ cloudUploadStream[f].state = "null"
    /\ ctl[f].promise = "null" /\ ~ctl[f].flushed
    /\ uploads[f] = [main |-> IdleCall, fb |-> IdleCall]
    /\ result[f] = NoResult
    /\ \A p \in OwnPaths(f) : fs[p] = None /\ p \notin tempFilesPathRegistry

\* C19: an image whose declared mimetype is not in SHARP_SUPPORTED_FORMATS,
\* keepOriginal not set, is completed as failed by _handleFile before
\* anything is received: no byte of file.stream is read, no tee or backup
\* capture, no controller and no sink exist, and the callback gets
\* cb(null, record) with the unsupported-format record, once.
C19_UnsupportedShortCircuit ==
    \A f \in files :
        (/\ proc.state = "running"
         /\ isImage(f)
         /\ ~file[f].keepOriginal
         /\ file[f].mimetype \notin SHARP_SUPPORTED_FORMATS) =>
            /\ Untouched(f)
            /\ Delivered(f) =>
                   /\ Len(cbs[f]) = 1
                   /\ DeliveredRecord(f)
                   /\ IsUnsupportedFailure(RecordOf(f))

\* A BMP image of two chunks, to be converted and written to disk with
\* backup protection on, was completed by the format check.
C19_Witness ==
    /\ proc.state = "running"
    /\ file[1].mimetype = "image/bmp" /\ ~file[1].keepOriginal
    /\ file[1].output = "disk"
    /\ safeFile
    /\ Len(file[1].input) = 2
    /\ DeliveredRecord(1) /\ IsUnsupportedFailure(RecordOf(1))

\* The file goes the pass-through way: the format check does not complete
\* it, no converter exists, the sink holds an initial segment of the input,
\* a delivery other than Succeeded names the failure of a sink, and a
\* Succeeded delivery left the whole input in the sink under the declared
\* mimetype.
PassesThrough(f) ==
    /\ converter[f].state = "null"
    /\ IsPrefix(SinkBytes(f), InputBytes(f))
    /\ DeliveredRecord(f) =>
          /\ ~IsUnsupportedFailure(RecordOf(f))
          /\ ~IsSucceeded(RecordOf(f)) =>
                 RecordOf(f).meta # None /\ RecordOf(f).meta[1].errors # {}
          /\ IsSucceeded(RecordOf(f)) =>
                 /\ SinkBytes(f) = InputBytes(f)
                 /\ RecordOf(f).mimetype = Some(file[f].mimetype)

\* C20 as stated: an image whose declared type is outside the converter's
\* supported set goes directly to PassThrough instead of erroring - it is
\* delivered unmodified to the configured sink, no conversion attempted,
\* and ends Succeeded.
C20_UnsupportedImagePassesThrough ==
    \A f \in files :
        (/\ proc.state = "running"
         /\ isImage(f)
         /\ file[f].mimetype \notin SHARP_SUPPORTED_FORMATS) =>
            PassesThrough(f)

\* C20, for the files the format check lets through: an image whose
\* declared type is outside the converter's supported set and whose field
\* sets keepOriginal goes to PassThrough - no conversion attempted, the file
\* delivered unmodified to the configured sink, Succeeded unless the sink
\* fails.
C20_UnsupportedKeptImagePassesThrough ==
    \A f \in files :
        (/\ proc.state = "running"
         /\ isImage(f)
         /\ file[f].mimetype \notin SHARP_SUPPORTED_FORMATS
         /\ file[f].keepOriginal) =>
            PassesThrough(f)

\* A BMP image of two different chunks with keepOriginal set was delivered
\* Succeeded on disk.
C20_Witness ==
    /\ proc.state = "running"
    /\ file[1].mimetype = "image/bmp" /\ file[1].keepOriginal
    /\ file[1].output = "disk"
    /\ file[1].input = << <<1, 2, 3>>, <<4, 5, 6, 7>> >>
    /\ DeliveredRecord(1) /\ IsSucceeded(RecordOf(1))
    /\ fs[OutputPathOf(1)] = Some(InputBytes(1))

\* A delivered record with nothing usable in it: no buffer, no path, no
\* cloud descriptor.
IsTotalFailure(r) == r.defined /\ r.buffer = None /\ r.path = None /\ r.cloudUrl = None

\* What a handler testing file._metadata?.isSkipped sees, with the text of
\* _metadata.errors.message present.
ReportedSkipped(r) ==
    /\ r.meta # None
    /\ r.meta[1].isSkipped
    /\ \E e \in r.meta[1].errors : e[1] = "message"

\* C21: every file that could not be processed at all, a file rejected for
\* an unsupported image format included, is handed to the handler with
\* _metadata.isSkipped = true and an error text in _metadata.errors.message.
C21_TotalFailureInMetadata ==
    \A f \in files :
        proc.state = "running" /\ DeliveredRecord(f) /\ IsTotalFailure(RecordOf(f)) =>
            ReportedSkipped(RecordOf(f))

\* C22: content type of the result - the record's mimetype is
\* image/<target format> exactly when conversion ran and succeeded (image
\* input, keepOriginal not set, supported type); in every other outcome
\* that is not Failed it is the declared type. A file that is not an image
\* has no converter whatever keepOriginal says, and keeps its mimetype.
C22_ResultContentType ==
    \A f \in files :
        proc.state = "running" =>
            /\ ~isImage(f) => converter[f].state = "null"
            /\ DeliveredRecord(f) /\ IsSucceeded(RecordOf(f)) =>
                   RecordOf(f).mimetype =
                       IF isImage(f) /\ ~file[f].keepOriginal
                       THEN Some("image/webp") ELSE Some(file[f].mimetype)
            /\ DeliveredRecord(f) /\ IsBackupSubstituted(RecordOf(f)) =>
                   RecordOf(f).mimetype = Some(file[f].mimetype)

\* A PDF on a field that does not set keepOriginal was delivered Succeeded
\* from memory, under its declared type.
C22_Witness ==
    /\ proc.state = "running"
    /\ file[1].mimetype = "application/pdf" /\ ~file[1].keepOriginal
    /\ file[1].output = "memory"
    /\ file[1].input # <<>>
    /\ DeliveredRecord(1) /\ IsSucceeded(RecordOf(1))
    /\ RecordOf(1).mimetype = Some("application/pdf")

\* The locations a record carries.
Locations(r) ==
    (IF r.buffer # None THEN {"memory"} ELSE {}) \cup
    (IF r.path # None THEN {"disk"} ELSE {}) \cup
    (IF r.cloudUrl # None THEN {"cloud"} ELSE {})

\* C23: result location invariant - a Succeeded or BackupSubstituted record
\* has exactly one of buffer, disk path and cloud descriptor, the one of
\* the configured destination; a Failed record has none of them.
C23_ResultLocation ==
    \A f \in files :
        proc.state = "running" /\ DeliveredRecord(f) =>
            LET r == RecordOf(f) IN
            /\ IsSucceeded(r) \/ IsBackupSubstituted(r) => Locations(r) = {file[f].output}
            /\ IsFailed(r) \/ IsUnsupportedFailure(r) => Locations(r) = {}

\* A backup-substituted record on disk and nothing else in it.
C23_Witness ==
    /\ proc.state = "running"
    /\ file[1].output = "disk"
    /\ DeliveredRecord(1) /\ IsBackupSubstituted(RecordOf(1))
    /\ Locations(RecordOf(1)) = {"disk"}

\* ================================================================ upflyUpload
\* The call upflyUpload(options), the middleware it returns, and one request
\* through multer().any() and the grouping of req.files.

MaxUploadFiles == 3

\* The keys of options.fields, and the field names the form of a request uses.
FieldKeys == <<"avatar", "img_*">>

FormNames == {"avatar", "img_1", "img_2", "other"}

\* new RegExp(`^${regexPattern}$`).test(name) for a key with '*', equality
\* for a key without.
Matches(key, name) ==
    \/ key = name
    \/ key = "img_*" /\ name \in {"img_1", "img_2"}

\* One field configuration, as far as the checks of upflyUpload and of
\* validateCloudConfig look at it; a field without cloudStorage names no
\* provider.
FieldOptions ==
    [cloudStorage : {TRUE}, output : {"omitted", "memory", "disk", "tape"},
     cloudProvider : {"omitted", "cloudinary", "ftp"},
     cloudConfig : {"omitted", "partial", "complete"}]
    \cup
    [cloudStorage : {FALSE}, output : {"omitted", "memory", "disk", "tape"},
     cloudProvider : {"omitted"}, cloudConfig : {"omitted"}]

\* options.fields in the order of Object.entries: the field 'avatar', and
\* possibly a wildcard field kept on the local side.
FieldsOptions ==
    { << [key |-> FieldKeys[1], config |-> c] >> : c \in FieldOptions }
    \cup
    { << [key |-> FieldKeys[1], config |-> c], [key |-> FieldKeys[2], config |-> d] >> :
        c \in FieldOptions, d \in { o \in FieldOptions : ~o.cloudStorage } }

\* The checks of one field in the loop of upflyUpload: what it throws.
FieldCheck(c) ==
    IF c.cloudStorage /\ c.output # "memory"
    THEN Some("Error: cloudStorage requires output 'memory'")
    ELSE IF c.output # "omitted" /\ c.output \notin {"disk", "memory"}
    THEN Some("RangeError: invalid output")
    ELSE None

\* The first throw of the loop over Object.entries(fields).
RECURSIVE FirstThrown(_)
FirstThrown(fields) ==
    IF fields = <<>> THEN None
    ELSE IF FieldCheck(Head(fields).config) # None THEN FieldCheck(Head(fields).config)
    ELSE FirstThrown(Tail(fields))

\* validateCloudConfig(fieldname, cloudProvider, cloudConfig): what it throws.
validateCloudConfig(c) ==
    IF c.cloudProvider = "omitted" THEN Some("TypeError: missing cloudProvider")
    ELSE IF c.cloudConfig = "omitted" THEN Some("TypeError: cloudConfig missing")
    ELSE IF c.cloudProvider \notin {"cloudinary", "s3", "aws", "gcs", "google"}
    THEN Some("Error: unsupported cloud provider")
    ELSE IF c.cloudConfig = "partial" THEN Some("Error: cloudConfig missing required fields")
    ELSE None

\* The synchronous part of validateAllCloudConfigs: the first cloud field
\* whose structure validateCloudConfig refuses rejects the promise.
RECURSIVE FirstInvalidCloud(_)
FirstInvalidCloud(fields) ==
    IF fields = <<>> THEN None
    ELSE IF Head(fields).config.cloudStorage /\ validateCloudConfig(Head(fields).config) # None
    THEN validateCloudConfig(Head(fields).config)
    ELSE FirstInvalidCloud(Tail(fields))

cloudFields(fields) == SelectSeq(fields, LAMBDA e : e.config.cloudStorage)

\* upflyUpload(options) was called; nothing of its body has run.
UploadCalled(fields) ==
    [state |-> "called", fields |-> fields, thrown |-> None,
     validation |-> "none", startupLog |-> None,
     phase |-> "idle", arrived |-> 0, files |-> <<>>, order |-> <<>>,
     grouped |-> None]

\* The body of upflyUpload: the validation loop throws, or the cloud fields
\* go to validateAllCloudConfigs(...).catch(log) and the middleware is
\* returned.
UpflyUploadCall ==
    /\ up.state = "called"
    /\ up' = IF FirstThrown(up.fields) # None
             THEN [up EXCEPT !.state = "thrown", !.thrown = FirstThrown(up.fields)]
             ELSE [up EXCEPT !.state = "constructed",
                             !.validation = IF cloudFields(up.fields) # <<>>
                                            THEN "pending" ELSE "none"]
    /\ UNCHANGED <<conversion, cloud, dir, conv, proc, files, faulty, safeFile, file, stream, teeBackup, ctl,
                   result, backupState, fs, tempFilesPathRegistry, converter,
                   diskstream, cloudUploadStream, uploads, fallbackOp, cbs, hist>>

\* The promise of validateAllCloudConfigs settles: it rejects on the first
\* structure error, or when a connection test fails, and the .catch writes
\* the startup error to the console.
ValidationSettles ==
    /\ up.state = "constructed"
    /\ up.validation = "pending"
    /\ \E connected \in BOOLEAN :
          up' = IF FirstInvalidCloud(up.fields) # None
                THEN [up EXCEPT !.validation = "rejected",
                                !.startupLog = FirstInvalidCloud(up.fields)]
                ELSE IF connected
                THEN [up EXCEPT !.validation = "resolved"]
                ELSE [up EXCEPT !.validation = "rejected",
                                !.startupLog = Some("Error: cloud config validation failed")]
    /\ UNCHANGED <<conversion, cloud, dir, conv, proc, files, faulty, safeFile, file, stream, teeBackup, ctl,
                   result, backupState, fs, tempFilesPathRegistry, converter,
                   diskstream, cloudUploadStream, uploads, fallbackOp, cbs, hist>>

\* A request reaches the middleware: upload(req, res, ...).
RequestArrives ==
    /\ up.state = "constructed"
    /\ up.phase = "idle"
    /\ up' = [up EXCEPT !.phase = "receiving"]
    /\ UNCHANGED <<conversion, cloud, dir, conv, proc, files, faulty, safeFile, file, stream, teeBackup, ctl,
                   result, backupState, fs, tempFilesPathRegistry, converter,
                   diskstream, cloudUploadStream, uploads, fallbackOp, cbs, hist>>

\* fileFilter: the field name matches one of fieldPatterns.
isAllowed(fields, name) == \E i \in 1..Len(fields) : Matches(fields[i].key, name)

\* The wildcard loop of _handleFile: the first key with '*' that matches.
RECURSIVE FirstWildcard(_, _)
FirstWildcard(fields, name) ==
    IF fields = <<>> THEN None
    ELSE IF Head(fields).key = "img_*" /\ Matches(Head(fields).key, name)
    THEN Some(Head(fields).key)
    ELSE FirstWildcard(Tail(fields), name)

\* The key of the configuration _handleFile processes a file with:
\* fields[file.fieldname], else the first matching wildcard.
ConfigKeyFor(fields, name) ==
    IF \E i \in 1..Len(fields) : fields[i].key = name
    THEN Some(name)
    ELSE FirstWildcard(fields, name)

\* The next file part of the form arrives: the file filter skips it, or
\* multer pushes its placeholder onto req.files and calls _handleFile.
FileArrives ==
    /\ up.phase = "receiving"
    /\ up.arrived < MaxUploadFiles
    /\ \E name \in FormNames :
          up' = IF isAllowed(up.fields, name)
                THEN [up EXCEPT !.arrived = @ + 1,
                                !.files = Append(@, [id |-> up.arrived + 1,
                                                     fieldname |-> name,
                                                     key |-> ConfigKeyFor(up.fields, name),
                                                     done |-> FALSE])]
                ELSE [up EXCEPT !.arrived = @ + 1]
    /\ UNCHANGED <<conversion, cloud, dir, conv, proc, files, faulty, safeFile, file, stream, teeBackup, ctl,
                   result, backupState, fs, tempFilesPathRegistry, converter,
                   diskstream, cloudUploadStream, uploads, fallbackOp, cbs, hist>>

\* _handleFile calls cb(null, record) for one of the files in flight: multer
\* fills the file's placeholder.
FileHandled ==
    /\ up.phase \in {"receiving", "ended"}
    /\ \E i \in 1..Len(up.files) :
          /\ ~up.files[i].done
          /\ up.files[i].key # None
          /\ up' = [up EXCEPT !.files[i].done = TRUE,
                              !.order = Append(@, up.files[i].id)]
    /\ UNCHANGED <<conversion, cloud, dir, conv, proc, files, faulty, safeFile, file, stream, teeBackup, ctl,
                   result, backupState, fs, tempFilesPathRegistry, converter,
                   diskstream, cloudUploadStream, uploads, fallbackOp, cbs, hist>>

\* _handleFile calls cb(err): multer ends the upload with the error and the
\* middleware calls next(uploadErr).
FileErrored ==
    /\ up.phase \in {"receiving", "ended"}
    /\ \E i \in 1..Len(up.files) : ~up.files[i].done
    /\ up' = [up EXCEPT !.phase = "nextError"]
    /\ UNCHANGED <<conversion, cloud, dir, conv, proc, files, faulty, safeFile, file, stream, teeBackup, ctl,
                   result, backupState, fs, tempFilesPathRegistry, converter,
                   diskstream, cloudUploadStream, uploads, fallbackOp, cbs, hist>>

\* The form ended: no further part arrives.
FormEnds ==
    /\ up.phase = "receiving"
    /\ up' = [up EXCEPT !.phase = "ended"]
    /\ UNCHANGED <<conversion, cloud, dir, conv, proc, files, faulty, safeFile, file, stream, teeBackup, ctl,
                   result, backupState, fs, tempFilesPathRegistry, converter,
                   diskstream, cloudUploadStream, uploads, fallbackOp, cbs, hist>>

\* A grouping that puts each file in front of its list.
Push_Front(list, x) == <<x>> \o list

\* grouped[file.fieldname].push(file)
Push(list, x) == Append(list, x)

\* The loop of the middleware over req.files.
RECURSIVE GroupFrom(_, _)
GroupFrom(flat, grouped) ==
    IF flat = <<>> THEN grouped
    ELSE LET x == Head(flat)
             g == IF x.fieldname \in DOMAIN grouped
                  THEN grouped
                  ELSE grouped @@ (x.fieldname :> <<>>)
         IN GroupFrom(Tail(flat),
                      [g EXCEPT ![x.fieldname] = Push(@, x)])

Group(flat) == GroupFrom(flat, [n \in {} |-> <<>>])

\* multer's callback without an error, every placeholder filled: req.files
\* is grouped by field name and next() is called.
UploadDone ==
    /\ up.phase = "ended"
    /\ \A i \in 1..Len(up.files) : up.files[i].done
    /\ up' = [up EXCEPT !.phase = "next", !.grouped = Some(Group(up.files))]
    /\ UNCHANGED <<conversion, cloud, dir, conv, proc, files, faulty, safeFile, file, stream, teeBackup, ctl,
                   result, backupState, fs, tempFilesPathRegistry, converter,
                   diskstream, cloudUploadStream, uploads, fallbackOp, cbs, hist>>

NextUpload ==
    \/ UpflyUploadCall
    \/ ValidationSettles
    \/ RequestArrives
    \/ FileArrives
    \/ FileHandled
    \/ FileErrored
    \/ FormEnds
    \/ UploadDone

\* No file pipeline runs next to the middleware here.
InitUpload ==
    /\ InitOf({}, {})
    /\ ~safeFile
    /\ conversion = NoConversion
    /\ cloud = NoCloud
    /\ dir = NoDir
    /\ conv = NoConvert
    /\ up \in { UploadCalled(fields) : fields \in FieldsOptions }

SpecUpload == InitUpload /\ [][NextUpload]_vars

\* What the README and the error text of the check allow: a cloud field
\* leaves output out or sets it to 'memory'; any field leaves it out or sets
\* it to 'disk' or 'memory'.
RejectedAsDocumented(c) ==
    \/ c.cloudStorage /\ c.output \notin {"omitted", "memory"}
    \/ c.output \notin {"omitted", "disk", "memory"}

\* C24: upflyUpload accepts a field with cloudStorage: true whose output
\* option is omitted - constructing the middleware does not throw, and only
\* an explicit output other than 'memory' is rejected for a cloud field.
C24_CloudFieldWithoutOutputAccepted ==
    up.state = "thrown" =>
        \E i \in 1..Len(up.fields) : RejectedAsDocumented(up.fields[i].config)

\* C25: a cloud field whose provider is missing or unsupported, or whose
\* required credentials are missing, makes upflyUpload throw: no middleware
\* is returned, and no file is ever processed under such a configuration.
C25_BadCloudConfigIsFatal ==
    (/\ up.state # "none"
     /\ \E i \in 1..Len(up.fields) :
            /\ up.fields[i].config.cloudStorage
            /\ validateCloudConfig(up.fields[i].config) # None) =>
        /\ up.state \in {"called", "thrown"}
        /\ up.files = <<>>

\* The files of req.files with one field name, in the order of req.files.
OfField(flat, name) == SelectSeq(flat, LAMBDA x : x.fieldname = name)

\* C26: result aggregation - the grouped req.files is a partition of the
\* flat list by field name: the list of a field holds exactly the results
\* with that field name, in the order of the flat list (arrival order), so
\* every result is in exactly one list; no field has an empty list; and each
\* file was processed with the configuration of its own field.
C26_GroupingIsPartition ==
    (up.state # "none" /\ up.grouped # None) =>
        LET grouped == up.grouped[1] IN
        /\ DOMAIN grouped = { up.files[i].fieldname : i \in 1..Len(up.files) }
        /\ \A name \in DOMAIN grouped :
              /\ grouped[name] # <<>>
              /\ grouped[name] = OfField(up.files, name)
        /\ \A i \in 1..Len(up.files) :
              /\ \A j \in 1..Len(up.files) : i < j => up.files[i].id < up.files[j].id
              /\ up.files[i].key # None
              /\ Matches(up.files[i].key[1], up.files[i].fieldname)
              /\ Cardinality({ <<name, k>> \in (DOMAIN grouped) \X (1..Len(up.files)) :
                                 /\ k <= Len(grouped[name])
                                 /\ grouped[name][k].id = up.files[i].id }) = 1

\* Three files of two fields arrived interleaved, the last one was handled
\* first, and req.files was grouped.
C26_Witness ==
    /\ up.state = "constructed"
    /\ up.phase = "next"
    /\ Len(up.files) = 3
    /\ up.files[1].fieldname = "img_1"
    /\ up.files[2].fieldname = "avatar"
    /\ up.files[3].fieldname = "img_1"
    /\ up.order = <<3, 1, 2>>
    /\ up.grouped # None

\* =============================================================== upflyConvert
\* One request through the middleware upflyConvert returns, after Multer's
\* upload.single, upload.array or upload.fields put the files on the request.

MaxConvertFiles == 3

ConvertNames == {"a", "b"}

\* fields[fieldname] as upflyConvert reads it: no configuration, or its
\* keepOriginal and output.
ConvertOptions ==
    { f \in [ConvertNames -> {None} \cup { Some(c) : c \in [keepOriginal : BOOLEAN,
                                                            output : {"memory", "disk"}] }] :
        /\ f["a"] # None /\ ~f["a"][1].keepOriginal
        /\ f["b"] # None => f["b"][1].keepOriginal /\ f["b"][1].output = "memory" }

\* The file object Multer put on the request: an upload kept in memory has a
\* buffer, one stored on disk has a path.
MulterFile(id, name, mimetype, inMemory) ==
    [id |-> id, fieldname |-> name, mimetype |-> mimetype,
     buffer |-> IF inMemory THEN Some(<<id, id + 1, id + 2>>) ELSE None,
     path |-> IF inMemory THEN None ELSE Some(<<"upload", id>>),
     written |-> None, meta |-> None]

MulterFiles(id) ==
    { MulterFile(id, name, "image/png", TRUE) : name \in ConvertNames } \cup
    { MulterFile(id, "a", "application/pdf", TRUE), MulterFile(id, "a", "image/png", FALSE) }

\* req.files of a request, in arrival order.
ConvertInputs ==
    UNION { { s \in [1..n -> UNION { MulterFiles(id) : id \in 1..n }] :
                \A i \in 1..n : s[i].id = i } : n \in 1..MaxConvertFiles }

\* config = fields[fieldname] || {} and the defaults read from it.
keepOriginalOf(cfg, name) == cfg[name] # None /\ cfg[name][1].keepOriginal

outputOf(cfg, name) == IF cfg[name] # None THEN cfg[name][1].output ELSE "memory"

\* The files a conversion is started for: a buffer, an image mimetype, no
\* keepOriginal on the field.
Converts(cfg, x) ==
    /\ x.buffer # None
    /\ x.mimetype \in ImageMimetypes
    /\ ~keepOriginalOf(cfg, x.fieldname)

\* How a conversion can go: sharp ends, sharp emits 'error', the write
\* stream emits 'error', or the promise rejects (bufferStream 'error', a
\* throw before the promise exists).
Outcomes(output) ==
    IF output = "disk" THEN {"ok", "conversion", "diskWrite", "rejected"}
    ELSE {"ok", "conversion", "rejected"}

\* fs.writeFileSync(backupOutputPath, backupBuffer) runs only in the error
\* handlers of convertBufferToDisk, with a backup: it succeeds or throws.
FallbackWriteOutcomes(output, outcome, backup) ==
    IF output = "disk" /\ backup /\ outcome \in {"conversion", "diskWrite"}
    THEN BOOLEAN ELSE {TRUE}

BackupFallback(stage) ==
    Some([isBackupFallback |-> TRUE, isSkipped |-> FALSE, isProcessed |-> TRUE,
          errors |-> {<<stage, "E_" \o stage>>}])

\* A memory conversion that hands the file back on every error.
convertBufferToMemory_NoFallback(x, outcome, backup) ==
    IF outcome = "ok"
    THEN [x EXCEPT !.buffer = Some(SharpConvert(x.buffer[1])),
                   !.mimetype = ConvertedMime]
    ELSE x

\* convertBufferToMemory: what the promise resolves with.
convertBufferToMemory(x, outcome, backup) ==
    IF outcome = "ok"
    THEN [x EXCEPT !.buffer = Some(SharpConvert(x.buffer[1])),
                   !.mimetype = ConvertedMime]
    ELSE IF backup
    THEN [x EXCEPT !.buffer = x.buffer, !.meta = BackupFallback(outcome)]
    ELSE x

\* convertBufferToDisk: what the promise resolves with; fallbackWrites says
\* whether fs.writeFileSync(backupOutputPath, backupBuffer) succeeds.
convertBufferToDisk(x, outcome, backup, fallbackWrites) ==
    IF outcome = "ok"
    THEN [x EXCEPT !.path = Some(<<"converted", x.id>>), !.buffer = None,
                   !.written = Some(SharpConvert(x.buffer[1])),
                   !.mimetype = ConvertedMime]
    ELSE IF backup /\ fallbackWrites
    THEN [x EXCEPT !.path = Some(<<"original", x.id>>), !.buffer = None,
                   !.written = x.buffer, !.meta = BackupFallback(outcome)]
    ELSE x

\* The try/catch around one conversion: a rejection leaves the file.
ConversionResult(x, output, outcome, backup, fallbackWrites) ==
    IF outcome = "rejected" THEN x
    ELSE IF output = "disk" THEN convertBufferToDisk(x, outcome, backup, fallbackWrites)
    ELSE convertBufferToMemory(x, outcome, backup)

\* The field names of a list of files, in the order of first appearance:
\* the order of for (const fieldname in filesMap).
RECURSIVE KeysOf(_, _)
KeysOf(flat, seen) ==
    IF flat = <<>> THEN seen
    ELSE KeysOf(Tail(flat),
                IF \E i \in 1..Len(seen) : seen[i] = Head(flat).fieldname
                THEN seen ELSE Append(seen, Head(flat).fieldname))

\* groupFilesByField(filesArray)
groupFilesByField(flat) == GroupFrom(flat, [n \in {} |-> <<>>])

Undefined == [kind |-> "undefined"]

\* The request as Multer hands it over in each of its modes.
ConvertCalled(mode, cfg, input) ==
    [state |-> "called", mode |-> mode, cfg |-> cfg, input |-> input,
     reqFile |-> IF mode = "single" THEN Some(input[1]) ELSE None,
     reqFiles |-> IF mode = "array" THEN [kind |-> "array", list |-> input]
                  ELSE IF mode = "fields"
                  THEN [kind |-> "map", map |-> groupFilesByField(input)]
                  ELSE Undefined,
     filesMap |-> [n \in {} |-> <<>>], todo |-> <<>>, slots |-> <<>>,
     jobs |-> [i \in {} |-> None], order |-> <<>>]

\* Results in the order in which the promises settled.
PromiseAll_BySettlement(slots, order) ==
    LET mine == SelectSeq(order, LAMBDA id : \E i \in 1..Len(slots) : slots[i][1].id = id)
        rest == SelectSeq(slots, LAMBDA s : \A k \in 1..Len(order) : order[k] # s[1].id)
    IN [k \in 1..Len(mine) |->
          (CHOOSE s \in { slots[i] : i \in 1..Len(slots) } : s[1].id = mine[k])[1]]
       \o [k \in 1..Len(rest) |-> rest[k][1]]

\* Promise.all(promises): the values, by the position of their promise.
PromiseAll(slots, order) == [i \in 1..Len(slots) |-> slots[i][1]]

\* filesMap[fieldname].map(async (file) => ...): a file that is not
\* converted resolves at once with itself, the others are in flight.
StartField(c, name) ==
    [c EXCEPT !.state = "awaitField",
              !.slots = [i \in 1..Len(c.filesMap[name]) |->
                           IF Converts(c.cfg, c.filesMap[name][i])
                           THEN None ELSE Some(c.filesMap[name][i])]]

\* The end of the middleware: req.files = filesMap unless req.files is an
\* array, then next().
Finish(c) ==
    [c EXCEPT !.state = "next",
              !.reqFiles = IF c.reqFiles.kind = "map"
                           THEN [kind |-> "map", map |-> c.filesMap]
                           ELSE @]

\* The part of the middleware on req.files, up to its first await.
HandleFiles(c) ==
    IF c.reqFiles.kind = "undefined" THEN Finish(c)
    ELSE LET filesMap == IF c.reqFiles.kind = "array"
                         THEN groupFilesByField(c.reqFiles.list)
                         ELSE c.reqFiles.map
             d == [c EXCEPT !.filesMap = filesMap, !.todo = KeysOf(c.input, <<>>)]
         IN IF d.todo = <<>> THEN Finish(d) ELSE StartField(d, Head(d.todo))

Unchanged_pipeline ==
    UNCHANGED <<conversion, cloud, dir, up, proc, files, faulty, safeFile, file, stream, teeBackup, ctl,
                result, backupState, fs, tempFilesPathRegistry, converter,
                diskstream, cloudUploadStream, uploads, fallbackOp, cbs, hist>>

\* The middleware is called: req.file is converted if there is one to
\* convert, else the middleware goes on to req.files.
ConvertRequest ==
    /\ conv.state = "called"
    /\ conv' = IF conv.reqFile # None /\ Converts(conv.cfg, conv.reqFile[1])
               THEN [conv EXCEPT !.state = "awaitSingle"]
               ELSE HandleFiles(conv)
    /\ Unchanged_pipeline

\* The conversion of req.file settles; the middleware assigns req.file and
\* goes on to req.files.
SingleSettles ==
    /\ conv.state = "awaitSingle"
    /\ LET x == conv.reqFile[1]
           output == outputOf(conv.cfg, x.fieldname)
       IN \E outcome \in Outcomes(output) :
                \E fallbackWrites \in FallbackWriteOutcomes(output, outcome, safeFile) :
            LET r == ConversionResult(x, output, outcome, safeFile, fallbackWrites) IN
            conv' = HandleFiles([conv EXCEPT
                        !.reqFile = Some(r),
                        !.jobs = @ @@ (x.id :> [outcome |-> outcome,
                                                fallbackWrites |-> fallbackWrites,
                                                result |-> r]),
                        !.order = Append(@, x.id)])
    /\ Unchanged_pipeline

\* One of the conversions of the current field settles.
JobSettles ==
    /\ conv.state = "awaitField"
    /\ \E i \in 1..Len(conv.slots) :
          /\ conv.slots[i] = None
          /\ LET name == Head(conv.todo)
                 x == conv.filesMap[name][i]
                 output == outputOf(conv.cfg, name)
             IN \E outcome \in Outcomes(output) :
                \E fallbackWrites \in FallbackWriteOutcomes(output, outcome, safeFile) :
                  LET r == ConversionResult(x, output, outcome, safeFile, fallbackWrites) IN
                  conv' = [conv EXCEPT
                              !.slots[i] = Some(r),
                              !.jobs = @ @@ (x.id :> [outcome |-> outcome,
                                                      fallbackWrites |-> fallbackWrites,
                                                      result |-> r]),
                              !.order = Append(@, x.id)]
    /\ Unchanged_pipeline

\* await Promise.all(...) of the current field resumes: its list is
\* replaced, and the loop starts the next field or the middleware ends.
FieldResolves ==
    /\ conv.state = "awaitField"
    /\ \A i \in 1..Len(conv.slots) : conv.slots[i] # None
    /\ LET name == Head(conv.todo)
           filesMap == [conv.filesMap EXCEPT ![name] = PromiseAll(conv.slots, conv.order)]
           d == [conv EXCEPT !.filesMap = filesMap,
                             !.reqFiles = IF conv.reqFiles.kind = "map"
                                          THEN [kind |-> "map", map |-> filesMap]
                                          ELSE @,
                             !.todo = Tail(@), !.slots = <<>>]
       IN conv' = IF d.todo = <<>> THEN Finish(d) ELSE StartField(d, Head(d.todo))
    /\ Unchanged_pipeline

NextConvert ==
    \/ ConvertRequest
    \/ SingleSettles
    \/ JobSettles
    \/ FieldResolves

InitConvert ==
    /\ InitOf({}, {})
    /\ conversion = NoConversion
    /\ cloud = NoCloud
    /\ dir = NoDir
    /\ up = NoUpload
    /\ \E mode \in {"single", "array", "fields"}, cfg \in ConvertOptions,
          input \in ConvertInputs :
            /\ mode = "single" => Len(input) = 1
            /\ conv = ConvertCalled(mode, cfg, input)

SpecConvert == InitConvert /\ [][NextConvert]_vars

\* The files of the request the middleware looks at.
ConvertFiles == IF conv.mode = "single" THEN <<conv.input[1]>> ELSE conv.input

\* What one file of the request came out as: the value its conversion
\* resolved with, or the file itself when no conversion was started.
ResultOf(x) == IF x.id \in DOMAIN conv.jobs THEN conv.jobs[x.id].result ELSE x

\* The file objects the next handler finds on the request.
SeenByHandler ==
    IF conv.mode = "single" THEN {conv.reqFile[1]}
    ELSE IF conv.reqFiles.kind = "array"
    THEN { conv.reqFiles.list[i] : i \in 1..Len(conv.reqFiles.list) }
    ELSE UNION { { conv.reqFiles.map[n][i] : i \in 1..Len(conv.reqFiles.map[n]) } :
                   n \in DOMAIN conv.reqFiles.map }

IsConverted(r, x) ==
    /\ r.mimetype = ConvertedMime
    /\ r.meta = None
    /\ \/ r.buffer = Some(SharpConvert(x.buffer[1])) /\ r.path = None
       \/ r.written = Some(SharpConvert(x.buffer[1])) /\ r.path # None /\ r.buffer = None

\* A backup-fallback record with the bytes of the upload, in its buffer or
\* in the file at its path.
IsBackupFallbackOf(r, x) ==
    /\ r.meta # None /\ r.meta[1].isBackupFallback
    /\ r.mimetype = x.mimetype
    /\ \/ r.buffer = x.buffer /\ r.path = None
       \/ r.buffer = None /\ r.path # None /\ r.written = x.buffer

\* C27: in upflyConvert the output list of a field has the length of its
\* input list and its i-th entry is the result of the i-th input file,
\* whatever the order in which the conversions of the field finish.
C27_ConvertKeepsOrder ==
    conv.state \in {"awaitField", "next"} =>
        \A name \in DOMAIN conv.filesMap :
            (conv.state = "next" \/ \A k \in 1..Len(conv.todo) : conv.todo[k] # name) =>
                LET inputs == OfField(conv.input, name) IN
                /\ Len(conv.filesMap[name]) = Len(inputs)
                /\ \A i \in 1..Len(inputs) : conv.filesMap[name][i] = ResultOf(inputs[i])

\* Three images of one field were converted, the last one finished first
\* and the first one last; the list is in input order.
C27_Witness ==
    /\ conv.state = "next"
    /\ Len(conv.input) = 3
    /\ \A i \in 1..3 : conv.input[i].fieldname = "a" /\ Converts(conv.cfg, conv.input[i])
    /\ conv.order = <<3, 2, 1>>
    /\ \A i \in 1..3 : conv.jobs[i].outcome = "ok"
    /\ \A i \in 1..3 : conv.filesMap["a"][i].id = i /\ IsConverted(conv.filesMap["a"][i], conv.input[i])

\* C28: upflyConvert adds conversion after any Multer mode (single, array,
\* fields) - for every image file with a buffer whose field does not set
\* keepOriginal, the file object the next handler sees on the request
\* (req.file, or req.files as an array or as a field map) is the result of
\* its conversion.
C28_HandlerSeesConverted ==
    conv.state = "next" =>
        \A i \in 1..Len(ConvertFiles) :
            Converts(conv.cfg, ConvertFiles[i]) =>
                /\ ConvertFiles[i].id \in DOMAIN conv.jobs
                /\ ResultOf(ConvertFiles[i]) \in SeenByHandler

highWaterMark == 1

\* What was written to each downstream stage of a file and is not consumed.
Unconsumed(f) ==
    [converter |-> SumLen(converter[f].inq),
     diskstream |-> SumLen(diskstream[f].pending),
     cloudUploadStream |-> SumLen(cloudUploadStream[f].buf),
     backupWriteStream |-> SumLen(backupState[f].pending)]

\* C30: bounded buffering - when a downstream stage (converter, disk writer,
\* cloud upload stream, backup temp-file writer) signals that it is full,
\* the controller accepts no further chunk from upstream, and createBackup
\* writes no further chunk to the temp-file writer, until the stage drains.
C30_BoundedBuffering ==
    [][ \A f \in files :
          /\ (\E st \in {"converter", "diskstream", "cloudUploadStream"} :
                  Unconsumed(f)[st] >= highWaterMark) =>
                 stream'[f].pos <= stream[f].pos
          /\ Unconsumed(f).backupWriteStream >= highWaterMark =>
                 Unconsumed(f)'.backupWriteStream <= Unconsumed(f).backupWriteStream ]_vars

\* ------------------------------------------------- source errors, the tee

\* The backup temp file of f is gone from the disk and from the registry.
BackupFileGone(f) ==
    /\ fs[BackupPathOf(f)] = None
    /\ BackupPathOf(f) \notin tempFilesPathRegistry

\* C31: source error under the tee - if the source stream errors mid-stream
\* while safeFile is enabled, both tee views observe the error: the pipeline
\* of the file terminates (its callback is invoked with the error) and the
\* backup temp file already created for the file is deleted and
\* unregistered at once.
C31_SourceErrorReachesTee ==
    [][ \A f \in files :
          (needsBackup /\ stream[f].state = "open" /\ stream'[f].state = "errored") =>
              /\ Len(cbs'[f]) > Len(cbs[f])
              /\ BackupFileGone(f)' ]_vars

\* C32: backup write failure - if writing to the backup temp file fails, the
\* error is a handled outcome: the process keeps running, the temp file is
\* deleted, its path is not left registered, and the backup counts as
\* absent from then on.
C32_BackupWriteFailureHandled ==
    [][ \A f \in files :
          BackupWriteError(f) =>
              /\ proc'.state = "running"
              /\ BackupFileGone(f)'
              /\ ~BackupHasContent(f)' ]_vars

\* C33: no partial output - when a file with disk destination ends Failed
\* (a conversion or write error and no successful fallback), no partial or
\* empty output file of it is at its target path once the completion
\* callback has fired.
C33_NoPartialOutput ==
    \A f \in files :
        (/\ proc.state = "running"
         /\ file[f].output = "disk"
         /\ ~isCloudUpload(f)
         /\ DeliveredRecord(f)
         /\ IsFailed(RecordOf(f))) =>
            /\ fs[OutputPathOf(f)] = None
            /\ fs[RevisedOutputPathOf(f)] = None

\* C34: no backup without safeFile - when safeFile is false, processing a
\* file involves no tee and no backup capture: nothing is written to
\* teeBackup, backupState stays as constructed for the whole run, no temp
\* file is created and tempFilesPathRegistry stays as the file found it.
C34_NoBackupWithoutSafeFile ==
    (~safeFile /\ proc.state = "running") =>
        /\ tempFilesPathRegistry = {LeftoverPath}
        /\ \A f \in files :
              /\ teeBackup[f] = Fresh.teeBackup[f]
              /\ hist[f].backupSeen = <<>>
              /\ backupState[f] = InitBackupState
              /\ fs[BackupPathOf(f)] = None

\* Without safeFile a file larger than the spill threshold was read to its
\* end and delivered.
C34_Witness ==
    /\ ~safeFile
    /\ proc.state = "running"
    /\ \E f \in files :
          /\ SumLen(hist[f].mainSeen) > LARGE_FILE_THRESHOLD_BYTES
          /\ DeliveredRecord(f)
          /\ IsSucceeded(RecordOf(f))

\* ------------------------------------------------- ensureServerRootDir

\* The longest outputDir the calls are checked with, in characters.
MaxPathLen == 4

\* A path is a string over the characters that ensureServerRootDir and
\* path.resolve tell apart: the two separators, white space, the dot, the
\* colon and a letter (which is also a drive letter).
PathChars == {"/", "\\", " ", ".", ":", "a"}

PathStrings == UNION { [1..k -> PathChars] : k \in 0..MaxPathLen }

\* What upflyUpload may be given as outputDir: a string, or no string.
DirInputs ==
    { [type |-> "string", chars |-> s] : s \in PathStrings }
        \cup { [type |-> "undefined", chars |-> <<>>] }

Platforms == {"posix", "win32"}

IsSep(c) == c \in {"/", "\\"}

RECURSIVE TrimStart(_)
TrimStart(s) == IF s # <<>> /\ Head(s) = " " THEN TrimStart(Tail(s)) ELSE s

RECURSIVE TrimEnd(_)
TrimEnd(s) ==
    IF s # <<>> /\ s[Len(s)] = " " THEN TrimEnd(SubSeq(s, 1, Len(s) - 1)) ELSE s

\* String.prototype.trim
trim(s) == TrimEnd(TrimStart(s))

\* /^[a-zA-Z]:[\\/]/.test(input)
isWindowsDriveAbs(input) ==
    Len(input) >= 3 /\ input[1] = "a" /\ input[2] = ":" /\ IsSep(input[3])

\* /^[\\/]/.test(input)
looksRootedBySlash(input) == input # <<>> /\ IsSep(input[1])

\* A replace that removes one leading separator only.
StripLeading_One(input) == IF looksRootedBySlash(input) THEN Tail(input) ELSE input

\* input.replace(/^[/\\]+/, '')
RECURSIVE StripLeading(_)
StripLeading(input) ==
    IF looksRootedBySlash(input) THEN StripLeading(Tail(input)) ELSE input

\* path.sep and the separators path.resolve splits at.
SepOf(platform) == IF platform = "posix" THEN "/" ELSE "\\"

SepsOf(platform) == IF platform = "posix" THEN {"/"} ELSE {"/", "\\"}

\* The segments of a path between separators, empty ones included.
RECURSIVE Split(_, _)
Split(s, seps) ==
    IF s = <<>> THEN << <<>> >>
    ELSE LET rest == Split(Tail(s), seps) IN
         IF Head(s) \in seps THEN << <<>> >> \o rest
         ELSE << <<Head(s)>> \o Head(rest) >> \o Tail(rest)

\* Normalisation of the segments: empty ones and '.' are dropped, '..'
\* removes the segment before it and stops at the root.
RECURSIVE Normalize(_, _)
Normalize(segs, acc) ==
    IF segs = <<>> THEN acc
    ELSE LET g == Head(segs) IN
         Normalize(Tail(segs),
                   IF g = <<>> \/ g = <<".">> THEN acc
                   ELSE IF g = <<".", ".">>
                   THEN IF acc = <<>> THEN acc ELSE SubSeq(acc, 1, Len(acc) - 1)
                   ELSE Append(acc, g))

RECURSIVE JoinSegs(_, _)
JoinSegs(segs, sep) ==
    IF segs = <<>> THEN <<>>
    ELSE IF Len(segs) = 1 THEN segs[1]
    ELSE segs[1] \o <<sep>> \o JoinSegs(Tail(segs), sep)

\* process.cwd(): the project root, /r or c:\r.
CwdRoot(platform) == IF platform = "posix" THEN <<"/">> ELSE <<"c", ":", "\\">>

CwdSegs == << <<"r">> >>

\* path.resolve(process.cwd(), p).  POSIX: an absolute p stands for itself,
\* any other is appended to the working directory.  Windows: a p with a
\* drive letter is resolved on that drive (from its root when it is not the
\* drive of the working directory), a rooted p on the drive of the working
\* directory, any other under the working directory.
pathResolve(platform, p) ==
    LET seps == SepsOf(platform)
        sep == SepOf(platform)
    IN
    IF platform = "win32" /\ Len(p) >= 2 /\ p[1] = "a" /\ p[2] = ":"
    THEN <<"a", ":", "\\">>
             \o JoinSegs(Normalize(Split(SubSeq(p, 3, Len(p)), seps), <<>>), sep)
    ELSE IF p # <<>> /\ p[1] \in seps
    THEN CwdRoot(platform) \o JoinSegs(Normalize(Split(p, seps), <<>>), sep)
    ELSE CwdRoot(platform) \o JoinSegs(Normalize(Split(p, seps), CwdSegs), sep)

\* ensureServerRootDir(targetPath): what it throws or returns.
ensureServerRootDir(platform, targetPath) ==
    IF targetPath.type # "string" \/ trim(targetPath.chars) = <<>>
    THEN [threw |-> "TypeError", resolved |-> <<>>, warned |-> FALSE]
    ELSE LET input == trim(targetPath.chars) IN
         [threw |-> "none",
          resolved |-> IF isWindowsDriveAbs(input) THEN input
                       ELSE IF looksRootedBySlash(input)
                       THEN pathResolve(platform, StripLeading(input))
                       ELSE pathResolve(platform, input),
          warned |-> ~isWindowsDriveAbs(input) /\ looksRootedBySlash(input)]

\* A call of ensureServerRootDir that has not run yet; the directory it
\* will resolve to exists or does not.
DirCalled(platform, targetPath, exists) ==
    [state |-> "called", platform |-> platform, targetPath |-> targetPath,
     exists |-> exists, value |-> <<>>, made |-> FALSE, warned |-> FALSE]

\* No file is processed while the output directory is resolved.
Unchanged_files ==
    UNCHANGED <<proc, files, faulty, safeFile, file, stream, teeBackup, ctl,
                result, backupState, fs, tempFilesPathRegistry, converter,
                diskstream, cloudUploadStream, uploads, fallbackOp, cbs, hist>>

\* The call throws the TypeError of the argument check.
EnsureThrows ==
    /\ dir.state = "called"
    /\ ensureServerRootDir(dir.platform, dir.targetPath).threw # "none"
    /\ dir' = [dir EXCEPT !.state = "threw"]
    /\ UNCHANGED <<conversion, cloud, up, conv>>
    /\ Unchanged_files

\* The call resolves the path, warns once about a rooted path, creates the
\* directory when it is not there and returns the resolved path.
EnsureReturns ==
    /\ dir.state = "called"
    /\ LET r == ensureServerRootDir(dir.platform, dir.targetPath) IN
       /\ r.threw = "none"
       /\ dir' = [dir EXCEPT !.state = "returned", !.value = r.resolved,
                             !.warned = r.warned,
                             !.made = ~dir.exists, !.exists = TRUE]
    /\ UNCHANGED <<conversion, cloud, up, conv>>
    /\ Unchanged_files

NextDir ==
    \/ EnsureThrows
    \/ EnsureReturns

InitDir ==
    /\ InitOf({}, {})
    /\ ~safeFile
    /\ conversion = NoConversion
    /\ cloud = NoCloud
    /\ up = NoUpload
    /\ conv = NoConvert
    /\ dir \in { DirCalled(platform, targetPath, exists) :
                   platform \in Platforms, targetPath \in DirInputs,
                   exists \in BOOLEAN }

SpecDir == InitDir /\ [][NextDir]_vars

\* The path without the separators it begins with.
WithoutLeadingSeparators(s) ==
    LET rest == { i \in 1..Len(s) : ~IsSep(s[i]) }
        first == IF rest = {} THEN Len(s) + 1
                 ELSE CHOOSE i \in rest : \A j \in rest : i <= j
    IN SubSeq(s, first, Len(s))

\* What the claim says of a call given the path p as a string, or no string.
MapsAsDocumented(isString, p) ==
    IF ~isString \/ p = <<>>
    THEN dir.state = "threw"
    ELSE /\ dir.state = "returned"
         /\ dir.value =
               IF isWindowsDriveAbs(p) THEN p
               ELSE IF IsSep(p[1])
               THEN pathResolve(dir.platform, WithoutLeadingSeparators(p))
               ELSE pathResolve(dir.platform, p)

C36_AbsolutePosixUnchanged ==
    (/\ dir.state \in {"returned", "threw"}
     /\ dir.platform = "posix"
     /\ dir.targetPath.type = "string"
     /\ dir.targetPath.chars \in { <<"/", "a">>, <<"/", "a", "/", "a">> }) =>
        /\ dir.state = "returned"
        /\ dir.value = dir.targetPath.chars

\* ------------------------------------------- deliveries of the backup

\* C37: single delivery of the backup - for any file and any interleaving
\* of failures the backup content is delivered to a sink at most once: at
\* most one fallback write to disk or fallback buffer hand-over is started,
\* and at most one upload attempt has the backup content as its body.
C37_BackupDeliveredAtMostOnce ==
    \A f \in files :
        /\ hist[f].retries <= 1
        /\ ~isCloudUpload(f) => hist[f].fallbacks <= 1
        /\ Cardinality({ slot \in Slots : uploads[f][slot].tries = 2 }) <= 1

\* The converter of a cloud file failed after the upload of its output had
\* started; the started upload failed too, the backup was uploaded by the
\* one retry and the file was delivered.
C37_Witness ==
    \E f \in files :
        /\ uploads[f].main.phase = "rejected"
        /\ uploads[f].fb.phase = "resolved"
        /\ hist[f].retries = 1
        /\ Delivered(f)

\* -------------------------------------------------------- uploadToCloud

\* The backup argument of uploadToCloud: null, or an object whose buffer
\* and path are each set or null.
CloudBackups ==
    {None} \cup { Some([buffer |-> b, path |-> p]) :
                    b \in {None, Some(<<5>>), Some(<<5, 6>>)},
                    p \in {None, Some(<<"tmp", 1>>)} }

\* The stream argument: null (the fallback call of the controller), or a
\* readable with some content.
CloudStreams == {None, Some(<<>>), Some(<<1>>), Some(<<1, 2>>)}

\* uploadToCloud(stream, metadata, cloudProvider, cloudConfig, backup) was
\* called and the first adapter.upload(stream, metadata) is under way; the
\* file at backup.path exists (disk holds its content) or does not.
CloudCalled(source, backup, disk) ==
    [state |-> "primary", stream |-> source, backup |-> backup, disk |-> disk,
     attempts |-> <<>>, thrown |-> "none"]

\* The stream of the retry: fs.createReadStream(backup.path) when there is a
\* path, Readable.from(backup.buffer) otherwise.
retryStream(backup, disk) ==
    IF backup[1].path # None
    THEN [from |-> "path", body |-> disk]
    ELSE [from |-> "buffer", body |-> backup[1].buffer]

\* The first adapter.upload fulfils: `return result`.
AdapterUploadFulfils ==
    /\ cloud.state = "primary"
    /\ cloud.stream # None
    /\ cloud' = [cloud EXCEPT
           !.state = "returned",
           !.attempts = Append(@, [from |-> "stream", body |-> cloud.stream,
                                   ok |-> TRUE])]
    /\ UNCHANGED <<conversion, dir, up, conv>>
    /\ Unchanged_files

\* The first adapter.upload rejects (always so for a null stream): with a
\* usable backup the one retry is started, else `throw error`.
AdapterUploadRejects ==
    /\ cloud.state = "primary"
    /\ cloud' = [cloud EXCEPT
           !.state = IF BackupUsable(cloud.backup) THEN "retry" ELSE "threw",
           !.thrown = IF BackupUsable(cloud.backup) THEN "none" ELSE "error",
           !.attempts = Append(@, [from |-> "stream", body |-> cloud.stream,
                                   ok |-> FALSE])]
    /\ UNCHANGED <<conversion, dir, up, conv>>
    /\ Unchanged_files

\* The retry fulfils: `return result`.
AdapterRetryFulfils ==
    /\ cloud.state = "retry"
    /\ LET r == retryStream(cloud.backup, cloud.disk) IN
       /\ r.body # None
       /\ cloud' = [cloud EXCEPT
              !.state = "returned",
              !.attempts = Append(@, [from |-> r.from, body |-> r.body, ok |-> TRUE])]
    /\ UNCHANGED <<conversion, dir, up, conv>>
    /\ Unchanged_files

\* The retry rejects, or its stream cannot be read: `throw retryError`.
AdapterRetryRejects ==
    /\ cloud.state = "retry"
    /\ LET r == retryStream(cloud.backup, cloud.disk) IN
       cloud' = [cloud EXCEPT
           !.state = "threw",
           !.thrown = "retryError",
           !.attempts = Append(@, [from |-> r.from, body |-> r.body, ok |-> FALSE])]
    /\ UNCHANGED <<conversion, dir, up, conv>>
    /\ Unchanged_files

NextCloud ==
    \/ AdapterUploadFulfils
    \/ AdapterUploadRejects
    \/ AdapterRetryFulfils
    \/ AdapterRetryRejects

InitCloud ==
    /\ InitOf({}, {})
    /\ ~safeFile
    /\ conversion = NoConversion
    /\ dir = NoDir
    /\ up = NoUpload
    /\ conv = NoConvert
    /\ cloud \in { CloudCalled(source, backup, disk) :
                     source \in CloudStreams, backup \in CloudBackups,
                     disk \in {None, Some(<<7>>), Some(<<7, 8>>)} }

SpecCloud == InitCloud /\ [][NextCloud]_vars

\* C38: one call of uploadToCloud makes at most two adapter.upload
\* attempts: the primary one, and one retry that happens only if the
\* primary attempt failed and the backup argument has a buffer or a path;
\* the retry reads from the path when there is one, otherwise from the
\* buffer.  A failed retry propagates the retry's error, a failure without
\* usable backup the primary error, and a successful primary attempt is
\* never followed by a second upload.
C38_AtMostOneRetry ==
    cloud.state # "none" =>
        LET n == Len(cloud.attempts)
            b == cloud.backup
        IN
        /\ n <= 2
        /\ n >= 1 => cloud.attempts[1].from = "stream"
        /\ n = 2 =>
              /\ ~cloud.attempts[1].ok
              /\ b # None
              /\ b[1].buffer # None \/ b[1].path # None
              /\ cloud.attempts[2].from = IF b[1].path # None THEN "path" ELSE "buffer"
              /\ cloud.attempts[2].body = IF b[1].path # None THEN cloud.disk
                                          ELSE b[1].buffer
        /\ cloud.state = "threw" =>
              cloud.thrown = IF n = 2 THEN "retryError" ELSE "error"
        /\ cloud.state = "returned" => cloud.attempts[n].ok
        /\ (n >= 1 /\ cloud.attempts[1].ok) => n = 1 /\ cloud.state = "returned"

\* The primary attempt failed and the retry succeeded, reading the backup
\* from its path although the backup had a buffer too.
C38_Witness ==
    /\ cloud.state = "returned"
    /\ Len(cloud.attempts) = 2
    /\ cloud.backup[1].buffer # None
    /\ cloud.attempts[2].from = "path"

\* ------------------------------------------- the cloud convert upload

\* The uploadToCloud calls made on cloudUploadStream for a file.
StreamUploadsStarted(f) == hist[f].attempts - hist[f].retries - hist[f].fallbacks

\* C39: in the cloud convert path the upload is started once, when the
\* converter has produced its first output chunk and not before, and what
\* the remote upload consumes is the converter's output in order: the first
\* chunk, put back in front, is neither lost nor duplicated and no later
\* chunk is dropped before the adapter reads the stream.
C39_UploadSeesConverterOutput ==
    \A f \in files :
        (/\ proc.state = "running"
         /\ isCloudUpload(f) /\ shouldConvert(f) /\ ~Unsupported(f)) =>
            /\ StreamUploadsStarted(f) = IF ctl[f].cloudConvertedSize > 0 THEN 1 ELSE 0
            /\ uploads[f].main.phase # "idle" <=> ctl[f].cloudConvertedSize > 0
            /\ IsPrefix(uploads[f].main.body \o Flatten(cloudUploadStream[f].buf),
                        ConvertedBytes(f))
            /\ uploads[f].main.phase = "resolved" =>
                   uploads[f].main.body = ConvertedBytes(f)

\* A converted file of two chunks was uploaded whole: the upload started at
\* the first converted chunk and consumed it before the second one came.
C39_Witness ==
    \E f \in files :
        /\ isCloudUpload(f) /\ shouldConvert(f)
        /\ Len(file[f].input) = 2
        /\ uploads[f].main.phase = "resolved"
        /\ Len(uploads[f].main.body) > 0
        /\ DeliveredRecord(f) /\ IsSucceeded(RecordOf(f))

\* ------------------- convertBufferToMemory / convertBufferToDisk, by event

\* The buffers the conversions are called with.
ConversionBuffers == { <<1, 2, 3>>, <<4, 5, 6, 7>> }

\* convertBufferToMemory(file, ...) or convertBufferToDisk(file, ...) was
\* called: the promise is pending, the streams are created and piped,
\* nothing was emitted.  events lists the events emitted so far, calls the
\* calls of resolve and reject, fallbackFiles counts fs.writeFileSync of the
\* backup.
ConversionCalled(kind, safe, buffer) ==
    [state |-> "called", kind |-> kind, safeFile |-> safe, buffer |-> buffer,
     hasError |-> FALSE,
     source |-> "open", converter |-> "open",
     disk |-> IF kind = "disk" THEN "open" ELSE "null",
     statPending |-> FALSE, outFile |-> FALSE, fallbackFiles |-> 0,
     promise |-> None, calls |-> <<>>, events |-> <<>>]

\* A guard that lets every handler run.
HasErrorGuard_Off(c) == FALSE

\* if (hasError) return;
HasErrorGuard(c) == c.hasError

\* resolve(value) or reject(err) of the promise: the first call settles it,
\* a later one has no effect.
Settle(c, by, value) ==
    [c EXCEPT !.calls = Append(@, [by |-> by, value |-> value]),
              !.promise = IF @ = None THEN Some([by |-> by, value |-> value]) ELSE @]

\* stream.destroy() without an error: a stream that already failed keeps
\* the 'error' it is about to emit.
Destroy(st) == IF st \in {"open", "closing"} THEN "destroyed" ELSE st

\* The body of converter.on('error') and diskStream.on('error') after the
\* guard: the other stream is destroyed; with safeFile the memory variant
\* resolves with the backup, the disk variant writes the backup file and
\* resolves with it, or with the original file when the write throws;
\* without safeFile both resolve with the original file.
ErrorHandled(c, by, writeOk) ==
    LET d == [c EXCEPT !.hasError = TRUE,
                       !.disk = IF by = "converterError" THEN Destroy(@) ELSE @,
                       !.converter = IF by = "diskError" THEN Destroy(@) ELSE @]
    IN
    IF ~c.safeFile THEN Settle(d, by, "original")
    ELSE IF c.kind = "memory" THEN Settle(d, by, "fallback")
    ELSE IF writeOk THEN Settle([d EXCEPT !.fallbackFiles = @ + 1], by, "fallback")
    ELSE Settle(d, by, "original")

\* The outcomes of fs.writeFileSync(backupOutputPath, backupBuffer) that a
\* handler can meet.
WriteOutcomes(c) == IF c.safeFile /\ c.kind = "disk" THEN BOOLEAN ELSE {TRUE}

Unchanged_others ==
    /\ UNCHANGED <<cloud, dir, up, conv>>
    /\ Unchanged_files

\* sharp fails: the converter is about to emit 'error'.
ConverterFails ==
    /\ conversion.state = "called"
    /\ conversion.converter = "open"
    /\ conversion' = [conversion EXCEPT !.converter = "erroring"]
    /\ Unchanged_others

\* converter.on('error').
ConversionConverterError ==
    /\ conversion.state = "called"
    /\ conversion.converter = "erroring"
    /\ \E writeOk \in WriteOutcomes(conversion) :
          LET c == [conversion EXCEPT !.converter = "errored",
                                      !.events = Append(@, "converterError")]
          IN conversion' = IF HasErrorGuard(c) THEN c
                           ELSE ErrorHandled(c, "converterError", writeOk)
    /\ Unchanged_others

\* The open, a write or the close of the output file fails: diskStream is
\* about to emit 'error'.  The close comes after 'finish'.
DiskFails ==
    /\ conversion.state = "called"
    /\ conversion.disk \in {"open", "closing"}
    /\ conversion' = [conversion EXCEPT !.disk = "erroring"]
    /\ Unchanged_others

\* diskStream.on('error').
ConversionDiskError ==
    /\ conversion.state = "called"
    /\ conversion.disk = "erroring"
    /\ \E writeOk \in WriteOutcomes(conversion) :
          LET c == [conversion EXCEPT !.disk = "errored",
                                      !.events = Append(@, "diskError")]
          IN conversion' = IF HasErrorGuard(c) THEN c
                           ELSE ErrorHandled(c, "diskError", writeOk)
    /\ Unchanged_others

\* Readable.from(file.buffer) fails: bufferStream is about to emit 'error'.
SourceFails ==
    /\ conversion.state = "called"
    /\ conversion.source = "open"
    /\ conversion' = [conversion EXCEPT !.source = "erroring"]
    /\ Unchanged_others

\* bufferStream.on('error'): reject(err).
ConversionSourceError ==
    /\ conversion.state = "called"
    /\ conversion.source = "erroring"
    /\ LET c == [conversion EXCEPT !.source = "errored",
                                   !.events = Append(@, "sourceError")]
       IN conversion' = IF HasErrorGuard(c) THEN c
                        ELSE Settle([c EXCEPT !.hasError = TRUE], "sourceError", "rejected")
    /\ Unchanged_others

\* converter.on('end') of convertBufferToMemory: the whole buffer went
\* through the converter.
ConversionEnd ==
    /\ conversion.state = "called"
    /\ conversion.kind = "memory"
    /\ conversion.source = "open"
    /\ conversion.converter = "open"
    /\ LET c == [conversion EXCEPT !.source = "ended", !.converter = "ended",
                                   !.events = Append(@, "end")]
       IN conversion' = IF HasErrorGuard(c) THEN c ELSE Settle(c, "end", "converted")
    /\ Unchanged_others

\* diskStream.on('finish') of convertBufferToDisk: the converted file is
\* written; fs.stat is started and the stream goes on to close the file.
ConversionFinish ==
    /\ conversion.state = "called"
    /\ conversion.kind = "disk"
    /\ conversion.source = "open"
    /\ conversion.converter = "open"
    /\ conversion.disk = "open"
    /\ LET c == [conversion EXCEPT !.source = "ended", !.converter = "ended",
                                   !.disk = "closing", !.outFile = TRUE,
                                   !.events = Append(@, "finish")]
       IN conversion' = IF HasErrorGuard(c) THEN c ELSE [c EXCEPT !.statPending = TRUE]
    /\ Unchanged_others

\* The callback of fs.stat: resolve with the converted record, whatever
\* happened since 'finish'.
StatCallback ==
    /\ conversion.state = "called"
    /\ conversion.statPending
    /\ conversion' = Settle([conversion EXCEPT !.statPending = FALSE],
                            "finish", "converted")
    /\ Unchanged_others

\* The output file was closed without an error.
DiskCloses ==
    /\ conversion.state = "called"
    /\ conversion.disk = "closing"
    /\ conversion' = [conversion EXCEPT !.disk = "closed"]
    /\ Unchanged_others

NextConversion ==
    \/ ConverterFails
    \/ ConversionConverterError
    \/ DiskFails
    \/ ConversionDiskError
    \/ SourceFails
    \/ ConversionSourceError
    \/ ConversionEnd
    \/ ConversionFinish
    \/ StatCallback
    \/ DiskCloses

InitConversion ==
    /\ InitOf({}, {})
    /\ ~safeFile
    /\ cloud = NoCloud
    /\ dir = NoDir
    /\ up = NoUpload
    /\ conv = NoConvert
    /\ conversion \in { ConversionCalled(kind, safe, buffer) :
                          kind \in {"memory", "disk"}, safe \in BOOLEAN,
                          buffer \in ConversionBuffers }

SpecConversion == InitConversion /\ [][NextConversion]_vars

\* The event handlers that ran past their guard, in order.
ErrorWasHandledBefore(c, k) ==
    \E i \in 1..(k - 1) : c.calls[i].value # "converted"

\* C40 as stated: the promise of a conversion is settled by exactly one
\* event; when several of converter error, disk error, finish / end and
\* source error occur, only the first one produces the result, at most one
\* fallback file is written and no success record is produced after an
\* error was handled.
C40_FirstEventSettles ==
    conversion.state = "called" =>
        /\ conversion.promise # None =>
              conversion.promise[1].by = conversion.events[1]
        /\ conversion.fallbackFiles <= 1
        /\ conversion.promise # None /\ conversion.promise[1].value = "converted" =>
              ~conversion.hasError \/ conversion.calls[1].value = "converted"

\* C40: the promise is settled once, by the first handler that calls
\* resolve or reject; that is the handler of the first event, except that
\* an error handled between 'finish' and the callback of fs.stat settles
\* the promise before the finished conversion does.  At most one fallback
\* file is written, and the promise never holds a success record when an
\* error was handled before the success was reported.
C40_FirstCallSettles ==
    conversion.state = "called" =>
        LET c == conversion IN
        /\ c.promise # None <=> c.calls # <<>>
        /\ c.promise # None =>
              /\ c.promise[1] = c.calls[1]
              /\ \/ c.promise[1].by = c.events[1]
                 \/ /\ c.events[1] = "finish"
                    /\ c.promise[1].by = "diskError"
        /\ c.fallbackFiles <= 1
        /\ \A k \in 1..Len(c.calls) :
              (c.calls[k].value = "converted" /\ ErrorWasHandledBefore(c, k)) =>
                  c.promise[1] # c.calls[k]

\* The converted file was finished, the close of the file failed before
\* fs.stat called back, the backup file was written and the promise holds
\* the backup; the later resolve of the stat callback changed nothing.
C40_Witness ==
    /\ conversion.state = "called"
    /\ conversion.events = <<"finish", "diskError">>
    /\ Len(conversion.calls) = 2
    /\ conversion.promise[1].value = "fallback"
    /\ conversion.fallbackFiles = 1

====
